---- MODULE Spec2Model ----
(***************************************************************************)
(* Model of jira_sync: the reconciliation engine (SyncManager) that        *)
(* mirrors forge issues into a JIRA tracker through the JIRA wrapper.      *)
(*                                                                         *)
(* The tracker server and the forges are external; they appear here as    *)
(* the variables tracker and forge.  Everything the engine holds during a *)
(* pass (the lists and sets of sync_issues) is pass-local state.          *)
(***************************************************************************)
EXTENDS Integers, Sequences, FiniteSets, TLC

\* Python's None, for string-valued fields.
None == "None"

\* The value of an unset numeric tracker field (Python's None).
NoStoryPoints == -1

---------------------------------------------------------------------------
(* Bounds of the model *)

\* How many passes (invocations of sync_issues) a behaviour runs.
MaxPasses == 2

\* How many issues the tracker holds before the first pass.
MaxTrackerIssues == 2

---------------------------------------------------------------------------
(* Configuration: the values of the test configuration *)

\* JiraRunMode
READ_WRITE == "READ_WRITE"
READ_ONLY == "READ_ONLY"
DRY_RUN == "DRY_RUN"
JiraRunMode == {READ_WRITE, READ_ONLY, DRY_RUN}

\* jira_config.label
SyncLabel == "label"

\* jira_config.story_points_field ("" when not configured)
story_points_field == "story_points"

\* jira_config.statuses
statuses ==
    [new |-> "NEW", assigned |-> "IN_PROGRESS", blocked |-> "BLOCKED", closed |-> "DONE"]

\* IssueStatus
IssueStatus == {"new", "assigned", "blocked", "closed"}

\* SyncManager._jira_status_values
jira_status_values == {statuses[s] : s \in IssueStatus}

\* The status names the JQL of get_issues_by_labels treats as closed:
\* status IN ("Done", "Closed"); JQL compares status names without case.
ClosedStatusNames == {"DONE", "CLOSED"}

\* A status outside the configured ones (a custom triage state).
CustomStatus == "TRIAGE"

\* The status the tracker gives a new issue.
InitialStatus == "NEW"

\* config.instances: one enabled instance with an enabled and a disabled
\* repository, and one disabled instance.
InstancesConfig ==
    ("hub" :> [enabled |-> TRUE,
               repositories |-> ("app" :> [enabled |-> TRUE] @@ "old" :> [enabled |-> FALSE])])
    @@ ("off" :> [enabled |-> FALSE,
                  repositories |-> ("app" :> [enabled |-> TRUE])])

\* Instance.usermap: forge login -> tracker identity (dict.get gives None
\* for a login without an entry).
usermap == ("alice" :> "jira_alice") @@ ("bob" :> "bob@example.com")

usermap_get(login) == IF login \in DOMAIN usermap THEN usermap[login] ELSE None

\* The users of the tracker: key, emailAddress, name.
JiraUsers ==
    ("jira_alice" :> [key |-> "jira_alice", emailAddress |-> "alice@example.com",
                      name |-> "jira_alice"])
    @@ ("jira_bob" :> [key |-> "jira_bob", emailAddress |-> "bob@example.com",
                       name |-> "jira_bob"])

\* The user the tracker resolves an assign request to.
ResolveUser(user) ==
    IF user = None THEN None
    ELSE CHOOSE k \in DOMAIN JiraUsers :
            user \in {JiraUsers[k].key, JiraUsers[k].emailAddress, JiraUsers[k].name}

\* f"{instance_name}:{repo_name}"
RepoLabel(instance_name, repo_name) == instance_name \o ":" \o repo_name

\* SyncManager._instances_by_name: the enabled instances.
instances_by_name == {i \in DOMAIN InstancesConfig : InstancesConfig[i].enabled}

\* The (instance, repository) pairs the engine queries: enabled repositories
\* of enabled instances.
EnabledRepos ==
    {ir \in UNION {{<<i, r>> : r \in DOMAIN InstancesConfig[i].repositories} :
                   i \in instances_by_name} :
        InstancesConfig[ir[1]].repositories[ir[2]].enabled}

\* SyncManager.jira_repo_labels
jira_repo_labels == {RepoLabel(ir[1], ir[2]) : ir \in EnabledRepos}

---------------------------------------------------------------------------
(* The issues the tracker and the forges may hold before the first pass *)

URL1 == "https://hub/app/issues/1"
URL2 == "https://hub/app/issues/2"

TrackerIssue(status, labels, assignee, url, sp) ==
    [status |-> status, labels |-> labels, assignee |-> assignee, url |-> url,
     summary |-> "title", sp |-> sp]

LabelsApp == {SyncLabel, RepoLabel("hub", "app")}
LabelsOld == {SyncLabel, RepoLabel("hub", "old")}

TrackerFixtures ==
    { TrackerIssue("NEW", LabelsApp, None, URL1, NoStoryPoints),
      TrackerIssue("IN_PROGRESS", LabelsApp, "jira_alice", URL1, 5),
      TrackerIssue("IN_PROGRESS", LabelsApp, "jira_bob", URL1, NoStoryPoints),
      TrackerIssue(CustomStatus, LabelsApp, None, URL1, NoStoryPoints),
      TrackerIssue("DONE", LabelsApp, None, URL1, NoStoryPoints),
      TrackerIssue("CLOSED", {SyncLabel}, None, URL1, NoStoryPoints),
      TrackerIssue("NEW", LabelsOld, None, URL1, NoStoryPoints),
      TrackerIssue("NEW", LabelsApp, None, None, NoStoryPoints),
      TrackerIssue("NEW", LabelsApp, None, URL2, NoStoryPoints),
      TrackerIssue("DONE", LabelsOld, None, URL2, NoStoryPoints) }

ForgeIssue(repo, url, status, assignee, sp) ==
    [instance |-> "hub", repository |-> repo, full_url |-> url, assignee |-> assignee,
     status |-> status, story_points |-> sp]

ForgeFixtures ==
    { ForgeIssue("app", URL1, "new", None, 0),
      ForgeIssue("app", URL1, "new", None, 5),
      ForgeIssue("app", URL1, "assigned", "alice", 0),
      ForgeIssue("app", URL1, "assigned", "carol", 0),
      ForgeIssue("app", URL1, "assigned", "bob", 0),
      ForgeIssue("app", URL1, "blocked", None, 0),
      ForgeIssue("app", URL1, "closed", None, 0),
      ForgeIssue("app", URL1, "closed", "alice", 5),
      ForgeIssue("app", URL2, "new", None, 0),
      ForgeIssue("old", URL2, "new", None, 0) }

\* full_url identifies a forge issue.
DistinctUrls(S) == \A f, g \in S : f.full_url = g.full_url => f = g

RECURSIVE SetToSeq(_)
\* The elements of a finite set in some fixed order.
SetToSeq(S) ==
    IF S = {} THEN <<>>
    ELSE LET x == CHOOSE y \in S : TRUE IN <<x>> \o SetToSeq(S \ {x})

\* Gives the issues of a sequence their keys: the key is the position.
WithKeys(issues) ==
    [k \in 1..Len(issues) |->
        [key |-> k, status |-> issues[k].status, labels |-> issues[k].labels,
         assignee |-> issues[k].assignee, url |-> issues[k].url,
         summary |-> issues[k].summary, sp |-> issues[k].sp]]

---------------------------------------------------------------------------
(* State *)

VARIABLES
    tracker,                \* the tracker's issues, a sequence; key = index
    forge,                  \* the issues the forges serve
    run_mode,               \* JIRA.run_mode
    pc,                     \* position of sync_issues
    passes,                 \* completed passes
    tracker0,               \* the tracker as the pass found it
    open_jira_issues,       \* sync_issues: filtered open tracker issues
    forge_issues,           \* sync_issues: fetched forge issues
    matched_issues,         \* sync_issues: matched pairs
    unmatched_jira_issues,  \* sync_issues: tracker issues without forge issue
    unmatched_forge_issues, \* sync_issues: forge issues without tracker issue
    closed_jira_issues,     \* create_or_reopen_jira_issues: closed tracker issues
    calls,                  \* the tracker-client calls of the pass, in order
    prev_calls              \* the tracker-client calls of the pass before

\* The functions that are studied on their own (normalize_issue, the
\* matching, the pending changes) get their arguments and leave their result
\* here; the engine does not touch the two.
VARIABLES
    input,                  \* the arguments, a record
    output                  \* <<>> before the call, <<result>> after it

\* Repository.get_issues is followed statement by statement: its locals and
\* its position in the loop are here (<<>> wherever no fetch is studied).
VARIABLES
    fetch

engine_vars ==
    <<tracker, forge, run_mode, pc, passes, tracker0, open_jira_issues, forge_issues,
      matched_issues, unmatched_jira_issues, unmatched_forge_issues, closed_jira_issues,
      calls, prev_calls>>

vars == <<engine_vars, input, output, fetch>>

---------------------------------------------------------------------------
(* The tracker client: jira_wrapper.JIRA *)

\* One call of the tracker client, as the engine makes it.  step names the
\* part of the pass that made it, url the forge issue it was made for
\* (None in the close step), wrote whether the tracker was changed.
Call(op, step, key, url, status, user, labels, sp, wrote) ==
    [op |-> op, step |-> step, key |-> key, url |-> url, status |-> status,
     user |-> user, labels |-> labels, sp |-> sp, wrote |-> wrote]

\* JIRA.get_issues_by_labels(label, closed=closed) on the tracker trk: the
\* issues that carry the label and whose status is (not) a closed one.
get_issues_by_labels(trk, label, closed) ==
    IF run_mode = DRY_RUN THEN <<>>
    ELSE SelectSeq(trk, LAMBDA i : label \in i.labels
                                  /\ ((i.status \in ClosedStatusNames) <=> closed))

\* What jira.create_issue(fields=issue_dict) stores: summary and labels; the
\* external URL field is not part of issue_dict.
NewIssue(key, url, labels) ==
    [key |-> key, status |-> InitialStatus, labels |-> labels, assignee |-> None,
     url |-> None, summary |-> url, sp |-> NoStoryPoints]

\* JIRA.create_issue(url=url, labels=labels) in world w; ok says whether the
\* tracker accepts the request (otherwise JIRAError is caught).  The result
\* holds the world afterwards and the issue returned, as a sequence that is
\* empty when None is returned.
create_issue(w, url, labels, ok) ==
    IF run_mode # READ_WRITE \/ ~ok
    THEN [tracker |-> w.tracker,
          calls |-> Append(w.calls, Call("create", "create", 0, url, None, None, labels,
                                         NoStoryPoints, FALSE)),
          issue |-> <<>>]
    ELSE LET new == NewIssue(Len(w.tracker) + 1, url, labels)
         IN [tracker |-> Append(w.tracker, new),
             calls |-> Append(w.calls, Call("create", "create", new.key, url, None, None,
                                            labels, NoStoryPoints, TRUE)),
             issue |-> <<new>>]

\* A variant of transition_issue that holds back in DRY_RUN only.
transition_issue_unless_dry_run(w, issue, status, step, url) ==
    LET write == run_mode # DRY_RUN /\ issue.status # status
    IN [tracker |-> IF write THEN [w.tracker EXCEPT ![issue.key].status = status]
                    ELSE w.tracker,
        calls |-> Append(w.calls, Call("transition", step, issue.key, url, status, None, {},
                                       NoStoryPoints, write))]

\* JIRA.transition_issue(issue, status)
transition_issue(w, issue, status, step, url) ==
    LET write == run_mode = READ_WRITE /\ issue.status # status
    IN [tracker |-> IF write THEN [w.tracker EXCEPT ![issue.key].status = status]
                    ELSE w.tracker,
        calls |-> Append(w.calls, Call("transition", step, issue.key, url, status, None, {},
                                       NoStoryPoints, write))]

\* getattr(issue.fields.assignee, "name", None)
AssigneeName(issue) == IF issue.assignee = None THEN None ELSE JiraUsers[issue.assignee].name

\* JIRA.assign_to_issue(issue, user)
assign_to_issue(w, issue, user, url) ==
    LET write == run_mode = READ_WRITE /\ user # AssigneeName(issue)
    IN [tracker |-> IF write
                    THEN [w.tracker EXCEPT ![issue.key].assignee = ResolveUser(user)]
                    ELSE w.tracker,
        calls |-> Append(w.calls, Call("assign", "reconcile", issue.key, url, None, user, {},
                                       NoStoryPoints, write))]

\* The pending changes of an issue: labels to add, story points to set.
NoChanges == [labels |-> {}, sp |-> NoStoryPoints]

\* JIRA.add_labels(issue, labels, changes)
add_labels(issue, labels, changes) ==
    LET labels_to_add == {l \in labels : l \notin issue.labels}
    IN IF labels_to_add = {} THEN changes
       ELSE [changes EXCEPT !.labels = labels_to_add]

\* A variant of add_story_points that also sets story points of 0.
add_story_points_even_zero(field, issue, story_points, changes) ==
    IF field = "" THEN changes
    ELSE IF issue.sp = story_points THEN changes
    ELSE [changes EXCEPT !.sp = story_points]

\* JIRA.add_story_points(issue, story_points, changes) of a client whose
\* jira_config.story_points_field is field.
add_story_points_with(field, issue, story_points, changes) ==
    IF field = "" THEN changes
    ELSE IF issue.sp = story_points THEN changes
    ELSE IF story_points = 0 THEN changes
    ELSE [changes EXCEPT !.sp = story_points]

\* JIRA.add_story_points(issue, story_points, changes)
add_story_points(issue, story_points, changes) ==
    add_story_points_with(story_points_field, issue, story_points, changes)

\* A variant of update_issue that sets the labels field to the labels of the
\* changes where the code adds them.
update_issue_setting_labels(w, issue, changes, url) ==
    LET write == run_mode = READ_WRITE /\ changes # NoChanges
    IN [tracker |-> IF write
                    THEN [w.tracker EXCEPT
                            ![issue.key].labels = changes.labels,
                            ![issue.key].sp = IF changes.sp = NoStoryPoints THEN @
                                              ELSE changes.sp]
                    ELSE w.tracker,
        calls |-> Append(w.calls, Call("update", "reconcile", issue.key, url, None, None,
                                       changes.labels, changes.sp, write))]

\* JIRA.update_issue(issue, changes)
update_issue(w, issue, changes, url) ==
    LET write == run_mode = READ_WRITE /\ changes # NoChanges
    IN [tracker |-> IF write
                    THEN [w.tracker EXCEPT
                            ![issue.key].labels = @ \cup changes.labels,
                            ![issue.key].sp = IF changes.sp = NoStoryPoints THEN @
                                              ELSE changes.sp]
                    ELSE w.tracker,
        calls |-> Append(w.calls, Call("update", "reconcile", issue.key, url, None, None,
                                       changes.labels, changes.sp, write))]

---------------------------------------------------------------------------
(* The reconciliation engine: sync_mgr.SyncManager *)

\* A matched pair (jira_issue, forge_issue).
Pair(jira_issue, forge_issue) == [jira |-> jira_issue, forge |-> forge_issue]

Range(seq) == {seq[i] : i \in 1..Len(seq)}

\* SyncManager.retrieve_forge_issues: the issues of the enabled repositories
\* of the enabled instances.
retrieve_forge_issues(frg) ==
    {f \in frg : <<f.instance, f.repository>> \in EnabledRepos}

\* A variant that keeps every retrieved issue, whatever its labels.
KeepAllOpenJiraIssues(jira_issues) == jira_issues

\* SyncManager.filter_open_jira_issues_by_forge_repo
filter_open_jira_issues_by_forge_repo(jira_issues) ==
    SelectSeq(jira_issues, LAMBDA issue : \E label \in issue.labels : label \in jira_repo_labels)

\* SyncManager.get_full_url_from_jira_issue
get_full_url_from_jira_issue(jira_issue) == jira_issue.url

\* A variant of the inner loop that looks at the first remaining forge issue
\* only.
FirstMatchHeadOnly(pool, full_url) ==
    IF pool # <<>> /\ pool[1].full_url = full_url THEN 1 ELSE 0

\* The position of the first forge issue of pool with the given full_url,
\* 0 when there is none: the inner loop of match_jira_forge_issues.
FirstMatch(pool, full_url) ==
    LET hits == {i \in 1..Len(pool) : pool[i].full_url = full_url}
    IN IF hits = {} THEN 0 ELSE CHOOSE i \in hits : \A j \in hits : i <= j

\* A variant that leaves the matched forge issue among the unmatched ones.
RemoveNothing(seq, i) == seq

\* unmatched_forge_issues.remove(forge_issue)
RemoveAt(seq, i) == SubSeq(seq, 1, i - 1) \o SubSeq(seq, i + 1, Len(seq))

RECURSIVE MatchLoop(_, _, _)
\* The outer loop of match_jira_forge_issues from tracker issue i on.
MatchLoop(jira_issues, i, acc) ==
    IF i > Len(jira_issues) THEN acc
    ELSE LET jira_issue == jira_issues[i]
             full_url == get_full_url_from_jira_issue(jira_issue)
             hit == FirstMatch(acc.pool, full_url)
         IN IF hit # 0
            THEN MatchLoop(jira_issues, i + 1,
                    [acc EXCEPT !.matched = @ \cup {Pair(jira_issue, acc.pool[hit])},
                                !.pool = RemoveAt(@, hit)])
            ELSE MatchLoop(jira_issues, i + 1,
                    [acc EXCEPT !.unmatched_jira = @ \cup {jira_issue}])

\* A variant of the matching that reports every tracker issue as unmatched,
\* the matched ones included.
MatchAllUnmatched(jira_issues, forge_order) ==
    LET acc == MatchLoop(jira_issues, 1,
                         [matched |-> {}, unmatched_jira |-> {}, pool |-> forge_order])
    IN [matched |-> acc.matched, unmatched_jira |-> Range(jira_issues),
        unmatched_forge |-> Range(acc.pool)]

\* SyncManager.match_jira_forge_issues(jira_issues, forge_issues); forge_order
\* is set(forge_issues) in the order the set is iterated.
match_jira_forge_issues(jira_issues, forge_order) ==
    LET acc == MatchLoop(jira_issues, 1,
                         [matched |-> {}, unmatched_jira |-> {}, pool |-> forge_order])
    IN [matched |-> acc.matched, unmatched_jira |-> acc.unmatched_jira,
        unmatched_forge |-> Range(acc.pool)]

RECURSIVE CloseLoop(_, _, _)
CloseLoop(w, jira_issues, i) ==
    IF i > Len(jira_issues) THEN w
    ELSE CloseLoop(transition_issue(w, jira_issues[i], statuses.closed, "close", None),
                   jira_issues, i + 1)

\* A variant of the close step that transitions nothing.
CloseNothing(w, jira_issues) == w

\* SyncManager.close_jira_issues(jira_issues)
close_jira_issues(w, jira_issues) == CloseLoop(w, jira_issues, 1)

\* A variant that labels a new tracker issue with the sync label only.
SyncLabelOnly(forge_issue) == {SyncLabel}

\* The labels create_or_reopen_jira_issues gives a new tracker issue.
CreateLabels(forge_issue) ==
    {SyncLabel, RepoLabel(forge_issue.instance, forge_issue.repository)}

RECURSIVE CreateLoopStopOnFailure(_, _, _, _)
\* A variant of the creation loop that ends at the first creation that fails
\* (break where the code has continue).
CreateLoopStopOnFailure(acc, todo, i, fails) ==
    IF i > Len(todo) THEN acc
    ELSE LET forge_issue == todo[i]
             r == create_issue([tracker |-> acc.tracker, calls |-> acc.calls],
                               forge_issue.full_url,
                               {SyncLabel, RepoLabel(forge_issue.instance, forge_issue.repository)},
                               forge_issue \notin fails)
         IN IF r.issue = <<>>
            THEN [tracker |-> r.tracker, calls |-> r.calls, matched |-> acc.matched,
                  closed |-> acc.closed]
            ELSE CreateLoopStopOnFailure(
                    [tracker |-> r.tracker, calls |-> r.calls,
                     matched |-> acc.matched \cup {Pair(r.issue[1], forge_issue)},
                     closed |-> acc.closed],
                    todo, i + 1, fails)

RECURSIVE CreateLoop(_, _, _, _)
\* The creation loop of create_or_reopen_jira_issues; acc holds the world and
\* the matched pairs, fails the forge issues whose creation the tracker rejects.
CreateLoop(acc, todo, i, fails) ==
    IF i > Len(todo) THEN acc
    ELSE LET forge_issue == todo[i]
             r == create_issue([tracker |-> acc.tracker, calls |-> acc.calls],
                               forge_issue.full_url, CreateLabels(forge_issue),
                               forge_issue \notin fails)
         IN CreateLoop([tracker |-> r.tracker, calls |-> r.calls,
                        matched |-> IF r.issue = <<>> THEN acc.matched
                                    ELSE acc.matched \cup {Pair(r.issue[1], forge_issue)},
                        closed |-> acc.closed],
                       todo, i + 1, fails)

\* A variant of create_or_reopen_jira_issues without the re-match against the
\* closed tracker issues: every unmatched forge issue gets a new issue.
CreateWithoutRematch(w, unmatched, fails) ==
    IF unmatched = {}
    THEN [tracker |-> w.tracker, calls |-> w.calls, matched |-> {}, closed |-> <<>>]
    ELSE CreateLoop([tracker |-> w.tracker, calls |-> w.calls, matched |-> {},
                     closed |-> get_issues_by_labels(w.tracker, SyncLabel, TRUE)],
                    SetToSeq(unmatched), 1, fails)

\* SyncManager.create_or_reopen_jira_issues(forge_issues): the world
\* afterwards, the pairs returned and the closed tracker issues retrieved.
create_or_reopen_jira_issues(w, unmatched, fails) ==
    IF unmatched = {}
    THEN [tracker |-> w.tracker, calls |-> w.calls, matched |-> {}, closed |-> <<>>]
    ELSE LET closed == get_issues_by_labels(w.tracker, SyncLabel, TRUE)
             m == match_jira_forge_issues(closed, SetToSeq(unmatched))
         IN CreateLoop([tracker |-> w.tracker, calls |-> w.calls, matched |-> m.matched,
                        closed |-> closed],
                       SetToSeq(m.unmatched_forge), 1, fails)

\* The assignee the forge issue asks for (forge_jira_assignee).
ForgeJiraAssignee(forge_issue) ==
    IF forge_issue.assignee # None THEN usermap_get(forge_issue.assignee) ELSE None

\* A variant of the assignee condition that compares with the key only.
ShouldAssignUnlessSameKey(jira_issue, forge_jira_assignee) ==
    \/ (forge_jira_assignee # None) # (jira_issue.assignee # None)
    \/ /\ jira_issue.assignee # None
       /\ forge_jira_assignee # None
       /\ forge_jira_assignee # JiraUsers[jira_issue.assignee].key

\* The condition under which reconcile_jira_forge_issues calls assign_to_issue.
ShouldAssign(jira_issue, forge_jira_assignee) ==
    \/ (forge_jira_assignee # None) # (jira_issue.assignee # None)
    \/ /\ jira_issue.assignee # None
       /\ forge_jira_assignee # None
       /\ forge_jira_assignee \notin {JiraUsers[jira_issue.assignee].key,
                                      JiraUsers[jira_issue.assignee].emailAddress}

\* A variant of the transition condition that never closes a tracker issue.
ShouldTransitionOpenOnly(jira_issue, forge_issue) ==
    /\ jira_issue.status # statuses[forge_issue.status]
    /\ forge_issue.status # "closed"
    /\ ~(forge_issue.status = "new" /\ jira_issue.status \notin jira_status_values)

\* A variant of the transition condition without the new-status guard.
ShouldTransitionUnguarded(jira_issue, forge_issue) ==
    jira_issue.status # statuses[forge_issue.status]

\* A variant of the transition condition that leaves every tracker issue with
\* a status outside the configured ones alone, whatever the forge status.
ShouldTransitionKnownOnly(jira_issue, forge_issue) ==
    /\ jira_issue.status # statuses[forge_issue.status]
    /\ jira_issue.status \in jira_status_values

\* A variant of the transition condition that does not look at whether the
\* tracker issue has the mapped status already.
ShouldTransitionEvenIfSame(jira_issue, forge_issue) ==
    ~(forge_issue.status = "new" /\ jira_issue.status \notin jira_status_values)

\* A variant of the transition condition that leaves a tracker issue in a
\* closed status closed.
ShouldTransitionUnlessClosed(jira_issue, forge_issue) ==
    /\ jira_issue.status # statuses[forge_issue.status]
    /\ jira_issue.status \notin ClosedStatusNames
    /\ ~(forge_issue.status = "new" /\ jira_issue.status \notin jira_status_values)

\* The condition under which reconcile_jira_forge_issues calls transition_issue.
ShouldTransition(jira_issue, forge_issue) ==
    /\ jira_issue.status # statuses[forge_issue.status]
    /\ ~(forge_issue.status = "new" /\ jira_issue.status \notin jira_status_values)

\* A variant of the loop body that updates the tracker issue once for the
\* labels and once more for the story points.
ReconcilePairFieldByField(w, jira_issue, forge_issue) ==
    LET forge_jira_assignee == ForgeJiraAssignee(forge_issue)
        url == forge_issue.full_url
        w1 == IF ShouldAssign(jira_issue, forge_jira_assignee)
              THEN assign_to_issue(w, jira_issue, forge_jira_assignee, url)
              ELSE w
        w2 == IF ShouldTransition(jira_issue, forge_issue)
              THEN transition_issue(w1, jira_issue, statuses[forge_issue.status],
                                    "reconcile", url)
              ELSE w1
        w3 == update_issue(w2, jira_issue,
                           add_labels(jira_issue, CreateLabels(forge_issue), NoChanges), url)
    IN update_issue(w3, jira_issue,
                    add_story_points(jira_issue, forge_issue.story_points, NoChanges), url)

\* The body of the loop of reconcile_jira_forge_issues for one pair.
ReconcilePair(w, jira_issue, forge_issue) ==
    LET forge_jira_assignee == ForgeJiraAssignee(forge_issue)
        url == forge_issue.full_url
        w1 == IF ShouldAssign(jira_issue, forge_jira_assignee)
              THEN assign_to_issue(w, jira_issue, forge_jira_assignee, url)
              ELSE w
        w2 == IF ShouldTransition(jira_issue, forge_issue)
              THEN transition_issue(w1, jira_issue, statuses[forge_issue.status],
                                    "reconcile", url)
              ELSE w1
        changes == add_story_points(jira_issue, forge_issue.story_points,
                       add_labels(jira_issue, CreateLabels(forge_issue), NoChanges))
    IN update_issue(w2, jira_issue, changes, url)

\* A variant of the reconcile step that reconciles no pair.
ReconcileNothing(w, matched) == w

RECURSIVE ReconcileLoop(_, _, _)
ReconcileLoop(w, pairs, i) ==
    IF i > Len(pairs) THEN w
    ELSE ReconcileLoop(ReconcilePair(w, pairs[i].jira, pairs[i].forge), pairs, i + 1)

\* SyncManager.reconcile_jira_forge_issues(matched_issues)
reconcile_jira_forge_issues(w, matched) == ReconcileLoop(w, SetToSeq(matched), 1)

---------------------------------------------------------------------------
(* One pass: SyncManager.sync_issues, step by step *)

\* A variant of the pass that asks the forges only after the close step.
ForgeRequestAfterClose == "closed"

\* The position of sync_issues at which the forges are asked: after the open
\* tracker issues were retrieved and before anything is matched or written.
ForgeRequestStep == "jira"

TypeOK ==
    /\ run_mode \in JiraRunMode
    /\ pc \in {"idle", "jira", "forge", "matched", "closed", "created", "done", "failed"}
    /\ passes \in 0..MaxPasses

Init ==
    /\ \E S \in SUBSET TrackerFixtures :
          /\ Cardinality(S) <= MaxTrackerIssues
          /\ tracker = WithKeys(SetToSeq(S))
    /\ \E S \in SUBSET ForgeFixtures : DistinctUrls(S) /\ forge = S
    /\ run_mode \in JiraRunMode
    /\ pc = "idle"
    /\ passes = 0
    /\ tracker0 = tracker
    /\ open_jira_issues = <<>>
    /\ forge_issues = {}
    /\ matched_issues = {}
    /\ unmatched_jira_issues = {}
    /\ unmatched_forge_issues = {}
    /\ closed_jira_issues = <<>>
    /\ calls = <<>>
    /\ prev_calls = <<>>
    /\ input = <<>>
    /\ output = <<>>
    /\ fetch = <<>>

\* sync_issues: retrieve the open tracker issues and filter them by scope.
RetrieveOpenJiraIssues ==
    /\ pc \in {"idle", "done", "failed"}
    /\ passes < MaxPasses
    /\ pc' = "jira"
    /\ tracker0' = tracker
    /\ open_jira_issues' =
          filter_open_jira_issues_by_forge_repo(get_issues_by_labels(tracker, SyncLabel, FALSE))
    /\ forge_issues' = {}
    /\ matched_issues' = {}
    /\ unmatched_jira_issues' = {}
    /\ unmatched_forge_issues' = {}
    /\ closed_jira_issues' = <<>>
    /\ calls' = <<>>
    /\ prev_calls' = IF pc = "failed" THEN prev_calls ELSE calls
    /\ UNCHANGED <<input, output, fetch, tracker, forge, run_mode, passes>>

\* sync_issues: retrieve the forge issues.
RetrieveForgeIssues ==
    /\ pc = "jira"
    /\ pc' = "forge"
    /\ forge_issues' = retrieve_forge_issues(forge)
    /\ UNCHANGED <<input, output, fetch, tracker, forge, run_mode, passes, tracker0, open_jira_issues,
                   matched_issues, unmatched_jira_issues, unmatched_forge_issues,
                   closed_jira_issues, calls, prev_calls>>

\* Instance.__init__ within SyncManager.__init__: query_repositories meets a
\* fatal HTTP status; the exception leaves the constructor, no pass starts.
QueryRepositoriesFails ==
    /\ pc = "idle"
    /\ passes = 0
    /\ pc' = "failed"
    /\ UNCHANGED <<input, output, fetch, tracker, forge, run_mode, passes, tracker0, open_jira_issues,
                   forge_issues, matched_issues, unmatched_jira_issues,
                   unmatched_forge_issues, closed_jira_issues, calls, prev_calls>>

\* sync_issues: a request of retrieve_forge_issues meets a fatal HTTP status;
\* raise_for_status raises and the exception leaves sync_issues.
RetrieveForgeIssuesFails ==
    /\ pc = ForgeRequestStep
    /\ pc' = "failed"
    /\ UNCHANGED <<input, output, fetch, tracker, forge, run_mode, passes, tracker0, open_jira_issues,
                   forge_issues, matched_issues, unmatched_jira_issues,
                   unmatched_forge_issues, closed_jira_issues, calls, prev_calls>>

\* sync_issues: match the open tracker issues with the forge issues.
MatchIssues ==
    /\ pc = "forge"
    /\ pc' = "matched"
    /\ LET m == match_jira_forge_issues(open_jira_issues, SetToSeq(forge_issues))
       IN /\ matched_issues' = m.matched
          /\ unmatched_jira_issues' = m.unmatched_jira
          /\ unmatched_forge_issues' = m.unmatched_forge
    /\ UNCHANGED <<input, output, fetch, tracker, forge, run_mode, passes, tracker0, open_jira_issues,
                   forge_issues, closed_jira_issues, calls, prev_calls>>

\* sync_issues: close the unmatched tracker issues.
CloseJiraIssues ==
    /\ pc = "matched"
    /\ pc' = "closed"
    /\ LET w == close_jira_issues([tracker |-> tracker, calls |-> calls],
                                  SetToSeq(unmatched_jira_issues))
       IN tracker' = w.tracker /\ calls' = w.calls
    /\ UNCHANGED <<input, output, fetch, forge, run_mode, passes, tracker0, open_jira_issues, forge_issues,
                   matched_issues, unmatched_jira_issues, unmatched_forge_issues,
                   closed_jira_issues, prev_calls>>

\* sync_issues: create or reopen tracker issues for the unmatched forge
\* issues and add the pairs to the matched ones.
CreateOrReopenJiraIssues ==
    /\ pc = "closed"
    /\ pc' = "created"
    /\ \E fails \in SUBSET unmatched_forge_issues :
          /\ run_mode # READ_WRITE => fails = {}
          /\ LET r == create_or_reopen_jira_issues([tracker |-> tracker, calls |-> calls],
                                                   unmatched_forge_issues, fails)
             IN /\ tracker' = r.tracker
                /\ calls' = r.calls
                /\ matched_issues' = matched_issues \cup r.matched
                /\ closed_jira_issues' = r.closed
    /\ UNCHANGED <<input, output, fetch, forge, run_mode, passes, tracker0, open_jira_issues, forge_issues,
                   unmatched_jira_issues, unmatched_forge_issues, prev_calls>>

\* sync_issues: reconcile the matched pairs.
ReconcileJiraForgeIssues ==
    /\ pc = "created"
    /\ pc' = "done"
    /\ passes' = passes + 1
    /\ LET w == reconcile_jira_forge_issues([tracker |-> tracker, calls |-> calls],
                                            matched_issues)
       IN tracker' = w.tracker /\ calls' = w.calls
    /\ UNCHANGED <<input, output, fetch, forge, run_mode, tracker0, open_jira_issues, forge_issues,
                   matched_issues, unmatched_jira_issues, unmatched_forge_issues,
                   closed_jira_issues, prev_calls>>

Next ==
    \/ RetrieveOpenJiraIssues
    \/ QueryRepositoriesFails
    \/ RetrieveForgeIssues
    \/ RetrieveForgeIssuesFails
    \/ MatchIssues
    \/ CloseJiraIssues
    \/ CreateOrReopenJiraIssues
    \/ ReconcileJiraForgeIssues

Spec == Init /\ [][Next]_vars

---------------------------------------------------------------------------
(* Vocabulary of the claims *)

AfterClose == pc \in {"closed", "created", "done"}
AfterCreate == pc \in {"created", "done"}
PassDone == pc = "done"

\* A pass that follows a completed pass is running or has just finished.
InLaterPass ==
    \/ passes >= 1 /\ pc \in {"jira", "forge", "matched", "closed", "created"}
    \/ passes >= 2 /\ pc = "done"

\* The positions of the calls of the pass with the given operation.
CallsOf(op) == {i \in 1..Len(calls) : calls[i].op = op}

\* The create calls of a call sequence that returned no issue.
FailedCreates(cs) == {i \in 1..Len(cs) : cs[i].op = "create" /\ ~cs[i].wrote}

\* The forge issue is new and the tracker issue's status is none of the
\* configured status values: the case of the new-status guard.
NewStatusGuard(jira_issue, forge_issue) ==
    forge_issue.status = "new" /\ jira_issue.status \notin jira_status_values

---------------------------------------------------------------------------
(* C1 *)

\* C1: over consecutive passes that fetch the same forge issue, at most one
\* tracker issue is ever created for its full_url (a created issue has the
\* full_url as its summary).
C1_AtMostOneCreatedPerUrl ==
    \A f \in forge :
        Cardinality({k \in DOMAIN tracker : tracker[k].summary = f.full_url}) <= 1

---------------------------------------------------------------------------
(* C2 *)

\* C2: a READ_WRITE pass that follows a pass whose tracker calls all
\* succeeded, with forge and tracker untouched in between, makes no mutating
\* tracker call: no create, and no transition, assign or update that writes.
C2_SecondRunMutatesNothing ==
    (InLaterPass /\ run_mode = READ_WRITE /\ FailedCreates(prev_calls) = {}) =>
        \A i \in 1..Len(calls) : calls[i].op # "create" /\ ~calls[i].wrote

\* What does hold: a second pass mutates nothing when the pass before it
\* created no issue and no two tracker issues share an external URL.
IdempotentWhenNothingCreated ==
    (InLaterPass /\ run_mode = READ_WRITE
       /\ (\A i \in 1..Len(prev_calls) : prev_calls[i].op # "create")
       /\ (\A a, b \in DOMAIN tracker : a # b => tracker[a].url # tracker[b].url)) =>
        \A i \in 1..Len(calls) : calls[i].op # "create" /\ ~calls[i].wrote

---------------------------------------------------------------------------
(* C3 *)

\* C3: after a READ_WRITE pass in which every tracker call succeeded, every
\* fetched forge issue is in exactly one reconciled pair, and the tracker
\* issue of the pair has the status mapped from the forge issue's status,
\* unless the new-status guard applies to the pair.
C3_PassConverges ==
    (PassDone /\ run_mode = READ_WRITE /\ FailedCreates(calls) = {}) =>
        \A f \in forge_issues :
            /\ Cardinality({p \in matched_issues : p.forge = f}) = 1
            /\ \A p \in matched_issues :
                  p.forge = f =>
                    /\ \E i \in CallsOf("update") : calls[i].key = p.jira.key
                    /\ \/ tracker[p.jira.key].status = statuses[f.status]
                       \/ NewStatusGuard(p.jira, f)

\* A READ_WRITE pass has ended in which a tracker issue was moved to the
\* status of its forge issue and another forge issue got a new tracker issue.
C3_Witness ==
    /\ PassDone /\ run_mode = READ_WRITE /\ FailedCreates(calls) = {}
    /\ \E p \in matched_issues :
          /\ p.jira.status # statuses[p.forge.status]
          /\ tracker[p.jira.key].status = statuses[p.forge.status]
    /\ \E i \in CallsOf("create") : calls[i].wrote

---------------------------------------------------------------------------
(* C4 *)

\* C4: for a matched pair whose forge status is new and whose tracker status
\* is none of the configured status values, reconcile makes no transition
\* call and the tracker issue keeps its status.
C4_NewStatusGuard ==
    PassDone =>
        \A p \in matched_issues :
            NewStatusGuard(p.jira, p.forge) =>
                /\ \A i \in CallsOf("transition") : calls[i].key # p.jira.key
                /\ tracker[p.jira.key].status = p.jira.status

\* A READ_WRITE pass has reconciled a pair the guard applies to.
C4_Witness ==
    /\ PassDone /\ run_mode = READ_WRITE
    /\ \E p \in matched_issues :
          /\ NewStatusGuard(p.jira, p.forge)
          /\ \E i \in CallsOf("update") : calls[i].key = p.jira.key

---------------------------------------------------------------------------
(* C5 *)

\* An open tracker issue with none of the labels of the enabled repositories.
OutOfScope(issue) ==
    /\ issue.status \notin ClosedStatusNames
    /\ issue.labels \cap jira_repo_labels = {}

\* C5: an open tracker issue that carries none of the repository labels of
\* the enabled repositories is not among the issues the pass matches and is
\* the target of no call of the pass.
C5_OutOfScopeUntouched ==
    \A k \in DOMAIN tracker0 :
        OutOfScope(tracker0[k]) =>
            /\ \A i \in 1..Len(open_jira_issues) : open_jira_issues[i].key # k
            /\ \A p \in matched_issues : p.jira.key # k
            /\ \A i \in 1..Len(calls) : calls[i].key # k
            /\ tracker[k] = tracker0[k]

\* A READ_WRITE pass has ended that found an out-of-scope open issue whose
\* external URL is the full_url of a fetched forge issue.
C5_Witness ==
    /\ PassDone /\ run_mode = READ_WRITE
    /\ \E k \in DOMAIN tracker0 :
          /\ OutOfScope(tracker0[k])
          /\ \E f \in forge_issues : f.full_url = tracker0[k].url

---------------------------------------------------------------------------
(* C6 *)

\* C6: a tracker issue whose external URL field is empty is dubious: the
\* pass pairs it with no forge issue and its close step does not transition
\* it.
C6_DubiousNeitherMatchedNorClosed ==
    \A i \in 1..Len(open_jira_issues) :
        open_jira_issues[i].url = None =>
            /\ \A p \in matched_issues : p.jira.key # open_jira_issues[i].key
            /\ \A c \in CallsOf("transition") :
                  ~(calls[c].step = "close" /\ calls[c].key = open_jira_issues[i].key)

\* The half of C6 that holds: an issue without external URL is never paired.
DubiousNeverMatched ==
    \A i \in 1..Len(open_jira_issues) :
        open_jira_issues[i].url = None =>
            \A p \in matched_issues : p.jira.key # open_jira_issues[i].key

---------------------------------------------------------------------------
(* C7 *)

\* C7: once the close step has run, every open tracker issue in scope whose
\* non-empty external URL is the full_url of no fetched forge issue has
\* received a transition call to the configured closed status, and no tracker
\* issue of a matched pair was transitioned by the close step.
C7_CloseUnmatched ==
    AfterClose =>
        /\ \A j \in 1..Len(open_jira_issues) :
              (/\ open_jira_issues[j].url # None
               /\ \A f \in forge_issues : f.full_url # open_jira_issues[j].url) =>
                 \E c \in CallsOf("transition") :
                    /\ calls[c].step = "close"
                    /\ calls[c].key = open_jira_issues[j].key
                    /\ calls[c].status = statuses.closed
        /\ \A p \in matched_issues :
              \A c \in CallsOf("transition") :
                 ~(calls[c].step = "close" /\ calls[c].key = p.jira.key)

\* The close step has run in a pass that holds both a matched tracker issue
\* and an open one whose external URL no forge issue has.
C7_Witness ==
    /\ AfterClose
    /\ matched_issues # {}
    /\ \E j \in 1..Len(open_jira_issues) :
          /\ open_jira_issues[j].url # None
          /\ \A f \in forge_issues : f.full_url # open_jira_issues[j].url

---------------------------------------------------------------------------
(* C8 *)

---------------------------------------------------------------------------
(* C9 *)

---------------------------------------------------------------------------
(* C10 *)

\* The full_urls whose create call of this pass returned no issue.
FailedUrls == {calls[i].url : i \in FailedCreates(calls)}

\* C10: when create fails for a forge issue the pass goes on: that forge
\* issue is in no pair and no assign, transition or update call is made for
\* it; every other fetched forge issue is in exactly one pair, whose tracker
\* issue is reconciled by the end of the pass.
C10_CreateFailureSkipsOneIssue ==
    AfterCreate =>
        \A f \in forge_issues :
            IF f.full_url \in FailedUrls
            THEN /\ \A p \in matched_issues : p.forge # f
                 /\ \A i \in 1..Len(calls) :
                       calls[i].url = f.full_url => calls[i].op = "create"
            ELSE /\ Cardinality({p \in matched_issues : p.forge = f}) = 1
                 /\ PassDone =>
                       \A p \in matched_issues :
                          p.forge = f =>
                            \E i \in CallsOf("update") : calls[i].key = p.jira.key

\* A READ_WRITE pass has ended in which the tracker rejected the creation
\* for one forge issue and another forge issue got its new tracker issue.
C10_Witness ==
    /\ PassDone /\ run_mode = READ_WRITE
    /\ FailedUrls # {}
    /\ \E c \in CallsOf("create") : calls[c].wrote /\ calls[c].url \notin FailedUrls

---------------------------------------------------------------------------
(* C11 *)

---------------------------------------------------------------------------
(* C12 *)

\* The pass, or the construction before the first pass, was ended by a
\* fatal HTTP status of a forge request.
PassFailed == pc = "failed"

\* C12: when a forge request (repository discovery or issue listing) ends in
\* a fatal HTTP status the pass is over and has made no mutating tracker
\* call: no close, create, transition, assign or update call at all, and
\* the tracker is as it was when the pass began.
C12_ForgeErrorAbortsBeforeWrites ==
    PassFailed => calls = <<>> /\ tracker = tracker0

\* A READ_WRITE pass was ended by a forge error while an open tracker issue
\* in scope was waiting to be closed and a forge issue to be mirrored.
C12_Witness ==
    /\ PassFailed /\ run_mode = READ_WRITE
    /\ \E j \in 1..Len(open_jira_issues) :
          /\ open_jira_issues[j].url # None
          /\ \A f \in retrieve_forge_issues(forge) : f.full_url # open_jira_issues[j].url
    /\ retrieve_forge_issues(forge) # {}

---------------------------------------------------------------------------
(* C13 *)

\* C13: in READ_ONLY and in DRY_RUN run mode no create, transition, assign
\* or update call of the tracker client writes, create returns no issue (no
\* pair holds a created issue), and the tracker stays as it was when the
\* pass began.
C13_NoWriteUnlessReadWrite ==
    run_mode # READ_WRITE =>
        /\ \A i \in 1..Len(calls) : ~calls[i].wrote
        /\ \A i \in CallsOf("create") : \A p \in matched_issues : p.forge.full_url # calls[i].url
        /\ tracker = tracker0
        /\ Len(tracker) = Len(tracker0)

\* A READ_ONLY pass has ended that made a create, a transition, an assign
\* and an update call.
C13_Witness ==
    /\ PassDone /\ run_mode = READ_ONLY
    /\ \A op \in {"create", "transition", "assign", "update"} : CallsOf(op) # {}

\* A DRY_RUN pass has ended that made a create call.
C13_WitnessDryRun ==
    /\ PassDone /\ run_mode = DRY_RUN
    /\ CallsOf("create") # {}

---------------------------------------------------------------------------
(* The forge adapters: normalize_issue of the four Repository classes *)

\* The engine at rest, for the behaviours that study one function.
EngineIdle ==
    /\ tracker = <<>> /\ tracker0 = <<>> /\ forge = {}
    /\ run_mode = READ_WRITE /\ pc = "idle" /\ passes = 0
    /\ open_jira_issues = <<>> /\ closed_jira_issues = <<>>
    /\ forge_issues = {} /\ matched_issues = {}
    /\ unmatched_jira_issues = {} /\ unmatched_forge_issues = {}
    /\ calls = <<>> /\ prev_calls = <<>>

Adapters == {"pagure", "github", "gitlab", "forgejo"}

\* The forge's words for the state of an issue, and str.lower() on them.
RawStates == {"Open", "Closed", "open", "closed"}
Lower(s) == CASE s = "Open" -> "open" [] s = "Closed" -> "closed" [] OTHER -> s

\* The labels a raw issue may carry and the configured labels_to_story_points.
RawLabels == {"blocked", "small", "large"}
labels_to_story_points == ("small" :> 3) @@ ("large" :> 5)

RECURSIVE MaxStoryPoints(_, _)
\* The loop story_points = max(story_points, labels_to_story_points[tag]).
MaxStoryPoints(labels, story_points) ==
    IF labels = {} THEN story_points
    ELSE LET tag == CHOOSE l \in labels : TRUE
             sp == IF tag \in DOMAIN labels_to_story_points
                      /\ labels_to_story_points[tag] > story_points
                   THEN labels_to_story_points[tag] ELSE story_points
         IN MaxStoryPoints(labels \ {tag}, sp)

\* What normalize_issue gives: the Issue built, or the exception raised.
NormalizedIssue(status, assignee, story_points) ==
    [error |-> None, status |-> status, assignee |-> assignee, story_points |-> story_points]
Raised(error) ==
    [error |-> error, status |-> None, assignee |-> None, story_points |-> 0]

\* GitHubRepository.normalize_issue
GitHubNormalizeIssue(blocked_label, api_result) ==
    LET _assignee == api_result.assignee
        _state == Lower(api_result.state)
        _labels == api_result.labels
        status == IF _state # "closed"
                  THEN IF blocked_label # "" /\ blocked_label \in _labels THEN "blocked"
                       ELSE IF _assignee = None THEN "new" ELSE "assigned"
                  ELSE "closed"
    IN NormalizedIssue(status, _assignee, 0)

\* GitLabRepository.normalize_issue
GitLabNormalizeIssue(blocked_label, api_result) ==
    LET _assignee == api_result.assignee
        _state == Lower(api_result.state)
        _labels == api_result.labels
        status == IF _state # "closed"
                  THEN IF blocked_label # "" /\ blocked_label \in _labels THEN "blocked"
                       ELSE IF _assignee = None THEN "new" ELSE "assigned"
                  ELSE "closed"
    IN NormalizedIssue(status, _assignee, MaxStoryPoints(_labels, 0))

\* PagureRepository.normalize_issue: the loop over the tags reads
\* self.labels_to_priority, which neither the repository's configuration nor
\* the Instance has (AttributeError); without tags Issue() is called with
\* priority=, which the Issue dataclass does not take (TypeError).
PagureNormalizeIssue(blocked_label, api_result) ==
    LET _assignee == api_result.assignee
        _status == Lower(api_result.state)
        tags == api_result.labels
        status == IF _status # "closed"
                  THEN IF blocked_label # "" /\ blocked_label \in tags THEN "blocked"
                       ELSE IF _assignee = None THEN "new" ELSE "assigned"
                  ELSE "closed"
        priority_known == FALSE     \* hasattr(self, "labels_to_priority")
        issue_takes_priority == FALSE   \* Issue has a field priority
    IN IF tags # {} /\ ~priority_known THEN Raised("AttributeError")
       ELSE IF ~issue_takes_priority THEN Raised("TypeError")
       ELSE NormalizedIssue(status, _assignee, MaxStoryPoints(tags, 0))

\* ForgejoRepository.normalize_issue: as in PagureRepository.
ForgejoNormalizeIssue(blocked_label, api_result) ==
    LET _assignee == api_result.assignee
        _state == Lower(api_result.state)
        _labels == api_result.labels
        status == IF _state # "closed"
                  THEN IF blocked_label # "" /\ blocked_label \in _labels THEN "blocked"
                       ELSE IF _assignee = None THEN "new" ELSE "assigned"
                  ELSE "closed"
        priority_known == FALSE     \* hasattr(self, "labels_to_priority")
        issue_takes_priority == FALSE   \* Issue has a field priority
    IN IF _labels # {} /\ ~priority_known THEN Raised("AttributeError")
       ELSE IF ~issue_takes_priority THEN Raised("TypeError")
       ELSE NormalizedIssue(status, _assignee, MaxStoryPoints(_labels, 0))

\* repo.normalize_issue(api_result) for the repository class of the adapter.
normalize_issue(adapter, blocked_label, api_result) ==
    CASE adapter = "pagure" -> PagureNormalizeIssue(blocked_label, api_result)
      [] adapter = "github" -> GitHubNormalizeIssue(blocked_label, api_result)
      [] adapter = "gitlab" -> GitLabNormalizeIssue(blocked_label, api_result)
      [] adapter = "forgejo" -> ForgejoNormalizeIssue(blocked_label, api_result)

\* Every adapter, configuration and raw issue of the bounded sets.
InitNormalize ==
    /\ EngineIdle
    /\ \E a \in Adapters, b \in {"", "blocked"}, s \in RawStates,
          l \in SUBSET RawLabels, u \in {None, "alice"} :
          input = [fn |-> "normalize_issue", adapter |-> a, blocked_label |-> b,
                   api_result |-> [state |-> s, labels |-> l, assignee |-> u]]
    /\ output = <<>>
    /\ fetch = <<>>

NormalizeIssue ==
    /\ output = <<>>
    /\ output' = <<normalize_issue(input.adapter, input.blocked_label, input.api_result)>>
    /\ UNCHANGED <<engine_vars, input, fetch>>

NextNormalize == NormalizeIssue

SpecNormalize == InitNormalize /\ [][NextNormalize]_vars

---------------------------------------------------------------------------
(* C14 *)

\* normalize_issue was applied.
Normalized == output # <<>> /\ input.fn = "normalize_issue"

\* The status the rule gives: closed when the forge reports the issue closed;
\* else blocked when the configured blocked label is among the labels; else
\* assigned when there is an assignee; else new.
RuleStatus ==
    IF Lower(input.api_result.state) = "closed" THEN "closed"
    ELSE IF input.blocked_label # "" /\ input.blocked_label \in input.api_result.labels
         THEN "blocked"
    ELSE IF input.api_result.assignee # None THEN "assigned"
    ELSE "new"

\* C14: for every adapter (Pagure, GitHub, GitLab, Forgejo) and every raw
\* issue, normalize_issue gives an issue whose status follows the one rule.
C14_SameStatusRule ==
    Normalized => output[1].error = None /\ output[1].status = RuleStatus

\* What holds: the GitHub and the GitLab adapter follow the rule.
StatusRuleGitHubGitLab ==
    (Normalized /\ input.adapter \in {"github", "gitlab"}) =>
        output[1].error = None /\ output[1].status = RuleStatus

---------------------------------------------------------------------------
(* match_jira_forge_issues on its own, for every order of its arguments *)

MaxMatchIssues == 3

URL3 == "https://hub/app/issues/3"

\* Tracker issues, as far as the matching reads them; two share URL1.
MatchJiraPool ==
    { [key |-> 1, url |-> URL1], [key |-> 2, url |-> URL2],
      [key |-> 3, url |-> None], [key |-> 4, url |-> URL1] }

\* Forge issues, as far as the matching reads them; two share URL1.
MatchForgePool ==
    { [full_url |-> URL1, status |-> "new"], [full_url |-> URL2, status |-> "new"],
      [full_url |-> URL3, status |-> "new"], [full_url |-> URL1, status |-> "closed"] }

\* The orders in which a collection with the elements of S can be iterated.
Orders(S) ==
    {s \in [1..Cardinality(S) -> S] : \A i, j \in 1..Cardinality(S) : i # j => s[i] # s[j]}

\* Collections of tracker and forge issues, each in two orders.
InitMatch ==
    /\ EngineIdle
    /\ \E J \in SUBSET MatchJiraPool, F \in SUBSET MatchForgePool :
          /\ Cardinality(J) <= MaxMatchIssues
          /\ Cardinality(F) <= MaxMatchIssues
          /\ \E j \in Orders(J), f \in Orders(F) :
                input = [fn |-> "match_jira_forge_issues",
                         jira_issues |-> SetToSeq(J), forge_issues |-> SetToSeq(F),
                         jira_issues_reordered |-> j, forge_issues_reordered |-> f]
    /\ output = <<>>
    /\ fetch = <<>>

MatchJiraForgeIssues ==
    /\ output = <<>>
    /\ output' = <<[first |-> match_jira_forge_issues(input.jira_issues, input.forge_issues),
                    reordered |-> match_jira_forge_issues(input.jira_issues_reordered,
                                                          input.forge_issues_reordered)]>>
    /\ UNCHANGED <<engine_vars, input, fetch>>

NextMatch == MatchJiraForgeIssues

SpecMatch == InitMatch /\ [][NextMatch]_vars

---------------------------------------------------------------------------
(* C15 *)

\* match_jira_forge_issues was applied to both orders.
Matched == output # <<>> /\ input.fn = "match_jira_forge_issues"

\* The tracker issues have pairwise distinct external URLs and the forge
\* issues pairwise distinct full_urls.
DistinctMatchInput ==
    /\ \A a, b \in Range(input.jira_issues) : a.url = b.url => a = b
    /\ DistinctUrls(Range(input.forge_issues))

\* C15: when the forge issues have pairwise distinct full_urls and the
\* tracker issues pairwise distinct external URLs, match_jira_forge_issues
\* returns the same matched pairs, unmatched tracker issues and unmatched
\* forge issues for every order of either collection.
C15_MatchOrderIndependent ==
    (Matched /\ DistinctMatchInput) => output[1].first = output[1].reordered

\* The matching was applied to distinct issues in two orders that differ in
\* both collections, and it left pairs and unmatched issues of both kinds.
C15_Witness ==
    /\ Matched /\ DistinctMatchInput
    /\ input.jira_issues # input.jira_issues_reordered
    /\ input.forge_issues # input.forge_issues_reordered
    /\ output[1].first.matched # {}
    /\ output[1].first.unmatched_jira # {}
    /\ output[1].first.unmatched_forge # {}

\* Without the distinctness the result does depend on the order.
MatchOrderIndependentWithDuplicates ==
    Matched => output[1].first = output[1].reordered

---------------------------------------------------------------------------
(* C16 *)

\* A step keeps every tracker issue and every label it has.
LabelsGrow ==
    \A k \in DOMAIN tracker :
        k \in DOMAIN tracker' /\ tracker[k].labels \subseteq tracker'[k].labels

\* After a READ_WRITE pass the tracker issue of every pair has the sync label
\* and the label of the forge issue's repository.
SyncLabelsPresent ==
    (PassDone /\ run_mode = READ_WRITE) =>
        \A p \in matched_issues :
            {SyncLabel, RepoLabel(p.forge.instance, p.forge.repository)}
                \subseteq tracker[p.jira.key].labels

\* C16: over any sequence of passes the label set of a tracker issue only
\* grows: no step removes a label an issue had, and reconciling a pair leaves
\* the sync label and the "{instance}:{repo}" label on its tracker issue.
C16_LabelsOnlyGrow == [][LabelsGrow]_vars /\ []SyncLabelsPresent

\* A READ_WRITE pass has reconciled a tracker issue that lacked the label of
\* the repository and that keeps a label the pass did not ask for.
C16_Witness ==
    /\ PassDone /\ run_mode = READ_WRITE
    /\ \E p \in matched_issues :
          /\ RepoLabel(p.forge.instance, p.forge.repository) \notin p.jira.labels
          /\ RepoLabel(p.forge.instance, p.forge.repository) \in tracker[p.jira.key].labels
          /\ p.jira.labels \ {SyncLabel} # {}
          /\ p.jira.labels \subseteq tracker[p.jira.key].labels

---------------------------------------------------------------------------
(* C17 *)

\* The assignment target of a forge issue: the usermap entry of its assignee;
\* unassigned when it has no assignee or the assignee has no entry.
AssignTarget(forge_issue) ==
    IF forge_issue.assignee = None \/ forge_issue.assignee \notin DOMAIN usermap THEN None
    ELSE usermap[forge_issue.assignee]

\* The tracker issue's assignee already is the target, by key or by email.
AlreadyAssigned(jira_issue, target) ==
    IF jira_issue.assignee = None THEN target = None
    ELSE target \in {JiraUsers[jira_issue.assignee].key,
                     JiraUsers[jira_issue.assignee].emailAddress}

\* C17: for every matched pair reconcile calls assign if and only if the
\* tracker issue's assignee does not already equal the assignment target (by
\* key or by email address); it calls it once, with the target.
C17_AssignIffDifferent ==
    PassDone =>
        \A p \in matched_issues :
            LET target == AssignTarget(p.forge)
                mine == {c \in CallsOf("assign") : calls[c].key = p.jira.key}
            IN /\ (mine # {}) <=> ~AlreadyAssigned(p.jira, target)
               /\ Cardinality(mine) <= 1
               /\ \A c \in mine : calls[c].user = target

\* A READ_WRITE pass has taken the assignee from a tracker issue whose forge
\* issue is assigned to somebody without usermap entry.
C17_Witness ==
    /\ PassDone /\ run_mode = READ_WRITE
    /\ \E p \in matched_issues :
          /\ p.forge.assignee # None
          /\ p.forge.assignee \notin DOMAIN usermap
          /\ p.jira.assignee # None
          /\ tracker[p.jira.key].assignee = None

\* A pass has left alone a tracker issue whose assignee has the email address
\* the forge assignee is mapped to.
C17_WitnessEmail ==
    /\ PassDone /\ run_mode = READ_WRITE
    /\ \E p \in matched_issues :
          /\ p.jira.assignee # None
          /\ AssignTarget(p.forge) = JiraUsers[p.jira.assignee].emailAddress
          /\ AssignTarget(p.forge) # JiraUsers[p.jira.assignee].key
          /\ \A c \in CallsOf("assign") : calls[c].key # p.jira.key

\* A pass has assigned an unassigned tracker issue to the mapped user.
C17_WitnessAssign ==
    /\ PassDone /\ run_mode = READ_WRITE
    /\ \E p \in matched_issues :
          /\ p.jira.assignee = None
          /\ AssignTarget(p.forge) # None
          /\ tracker[p.jira.key].assignee # None

---------------------------------------------------------------------------
(* C18 *)

\* C18: for every matched pair reconcile calls no transition when the
\* tracker issue's status is the status mapped from the forge status; when it
\* is another one, it calls exactly one transition, to the mapped status, if
\* the forge status is assigned, blocked or closed, or if it is new and the
\* tracker status is one of the configured status values.
C18_TransitionRule ==
    PassDone =>
        \A p \in matched_issues :
            LET mapped == statuses[p.forge.status]
                mine == {c \in CallsOf("transition") : calls[c].key = p.jira.key}
            IN /\ p.jira.status = mapped => mine = {}
               /\ (/\ p.jira.status # mapped
                   /\ \/ p.forge.status \in {"assigned", "blocked", "closed"}
                      \/ p.forge.status = "new" /\ p.jira.status \in jira_status_values) =>
                     /\ Cardinality(mine) = 1
                     /\ \A c \in mine : calls[c].status = mapped /\ calls[c].step = "reconcile"

\* A READ_WRITE pass has reconciled a pair whose tracker issue had the mapped
\* status already and a pair whose tracker issue was moved back to new.
C18_Witness ==
    /\ PassDone /\ run_mode = READ_WRITE
    /\ \E p \in matched_issues :
          /\ p.jira.status = statuses[p.forge.status]
          /\ \A c \in CallsOf("transition") : calls[c].key # p.jira.key
    /\ \E p \in matched_issues :
          /\ p.forge.status = "new"
          /\ p.jira.status \in jira_status_values \ {statuses.new}
          /\ tracker[p.jira.key].status = statuses.new

---------------------------------------------------------------------------
(* add_story_points on its own, for every configuration and every value *)

\* The values of the tracker's story points field and of Issue.story_points.
StoryPointValues == {0, 3, 5, 8}

InitStoryPoints ==
    /\ EngineIdle
    /\ \E field \in {"", story_points_field},
          current \in StoryPointValues \cup {NoStoryPoints},
          story_points \in StoryPointValues,
          labels \in {{}, {SyncLabel}} :
          input = [fn |-> "add_story_points", story_points_field |-> field,
                   issue |-> [key |-> 1, sp |-> current], story_points |-> story_points,
                   changes |-> [NoChanges EXCEPT !.labels = labels]]
    /\ output = <<>>
    /\ fetch = <<>>

AddStoryPoints ==
    /\ output = <<>>
    /\ output' = <<add_story_points_with(input.story_points_field, input.issue,
                                         input.story_points, input.changes)>>
    /\ UNCHANGED <<engine_vars, input, fetch>>

NextStoryPoints == AddStoryPoints

SpecStoryPoints == InitStoryPoints /\ [][NextStoryPoints]_vars

---------------------------------------------------------------------------
(* C19 *)

\* add_story_points was applied.
StoryPointsAdded == output # <<>> /\ input.fn = "add_story_points"

\* A story points field is configured, the value computed from the forge
\* issue is not zero and differs from the tracker issue's value.
StoryPointsDue ==
    /\ input.story_points_field # ""
    /\ input.story_points # 0
    /\ input.story_points # input.issue.sp

\* C19: add_story_points adds a story points change to the pending changes
\* if and only if a story points field is configured, the value is not zero
\* and it differs from the tracker issue's value; in every other case it
\* returns the pending changes as they were.
C19_StoryPointsIff ==
    StoryPointsAdded =>
        IF StoryPointsDue
        THEN /\ output[1].sp = input.story_points
             /\ output[1].labels = input.changes.labels
             /\ output[1] # input.changes
        ELSE output[1] = input.changes

\* add_story_points has added a change to pending label changes, for a
\* tracker issue that had other story points.
C19_Witness ==
    /\ StoryPointsAdded /\ StoryPointsDue
    /\ input.issue.sp \notin {NoStoryPoints, 0}
    /\ input.changes.labels # {}
    /\ output[1].sp = input.story_points

\* add_story_points has returned the changes as they were because the value
\* was zero although the tracker issue has story points.
C19_WitnessZero ==
    /\ StoryPointsAdded
    /\ input.story_points_field # "" /\ input.story_points = 0 /\ input.issue.sp > 0
    /\ output[1] = input.changes

---------------------------------------------------------------------------
(* C20 *)

\* The labels reconcile has to add to the tracker issue of a pair, and the
\* story points it has to set (NoStoryPoints: none).
LabelsDue(p) == {SyncLabel, RepoLabel(p.forge.instance, p.forge.repository)} \ p.jira.labels
PointsDue(p) ==
    IF story_points_field # "" /\ p.forge.story_points # 0
       /\ p.forge.story_points # p.jira.sp
    THEN p.forge.story_points ELSE NoStoryPoints

\* C20: for every matched pair reconcile makes at most one update write in
\* a pass; the write carries the label additions and the story points change
\* together; there is no update write when there is nothing to change, and
\* in READ_WRITE mode there is one when there is.
C20_OneUpdatePerPair ==
    PassDone =>
        \A p \in matched_issues :
            LET writes == {c \in CallsOf("update") : calls[c].key = p.jira.key /\ calls[c].wrote}
                nothing == LabelsDue(p) = {} /\ PointsDue(p) = NoStoryPoints
            IN /\ Cardinality(writes) <= 1
               /\ \A c \in writes : calls[c].labels = LabelsDue(p) /\ calls[c].sp = PointsDue(p)
               /\ nothing => writes = {}
               /\ (run_mode = READ_WRITE /\ ~nothing) => writes # {}

\* A READ_WRITE pass has written labels and story points of a tracker issue
\* in one update, and has written nothing for another pair.
C20_Witness ==
    /\ PassDone /\ run_mode = READ_WRITE
    /\ \E c \in CallsOf("update") :
          calls[c].wrote /\ calls[c].labels # {} /\ calls[c].sp # NoStoryPoints
    /\ \E c \in CallsOf("update") : ~calls[c].wrote

---------------------------------------------------------------------------
(* The forge adapters: the parameters and the pages of a request *)

\* Python dictionaries are functions over their keys; {} is <<>>.
DictSet(d, key, value) == (key :> value) @@ d
DictPop(d, key) == [k \in DOMAIN d \ {key} |-> d[k]]
DictSetDefault(d, key, value) == d @@ (key :> value)
DictMerge(d, e) == e @@ d

\* The configuration of the repository that is queried.
RepoName == "ns/app"
InstanceApiUrl == "https://forge.example/api"
RepoLabels == {None, "sync"}
Today == 100
LookbackDays == {0, 1, 7, 30}

\* The two renderings of "retrieve_closed_days_ago days before now":
\* int(datetime.timestamp()) and datetime.isoformat(timespec="seconds").
EpochSeconds(day) == [format |-> "epoch", day |-> day]
IsoFormat(day) == [format |-> "iso8601", day |-> day]

\* The result of a call that may raise: the exception or the value.
Returned(value) == [error |-> None, value |-> value]
RaisedInstead(error) == [error |-> error, value |-> <<>>]

\* PagureRepository.get_issue_params(self, closed)
PagureGetIssueParams(args, label, retrieve_closed_days_ago) ==
    IF Len(args) # 1 THEN RaisedInstead("TypeError")
    ELSE LET closed == args[1]
             params == IF closed
                       THEN DictSet(DictSet(<<>>, "status", "Closed"), "since",
                                    EpochSeconds(Today - retrieve_closed_days_ago))
                       ELSE <<>>
         IN IF label = None THEN Returned(DictSet(<<>>, "params", params))
            ELSE Returned(DictSet(<<>>, "params", DictSet(params, "tags", label)))

\* GitHubRepository.get_issue_params(self): the method takes no argument
\* besides self, so a call that passes one raises TypeError.
GitHubGetIssueParams(args, label, retrieve_closed_days_ago) ==
    IF Len(args) # 0 THEN RaisedInstead("TypeError")
    ELSE IF label = None THEN Returned(<<>>)
    ELSE Returned(DictSet(<<>>, "params", DictSet(<<>>, "labels", label)))

\* GitLabRepository.get_issue_params(self, closed)
GitLabGetIssueParams(args, label, retrieve_closed_days_ago) ==
    IF Len(args) # 1 THEN RaisedInstead("TypeError")
    ELSE LET closed == args[1]
             params == IF closed
                       THEN DictSet(DictSet(<<>>, "state", "closed"), "updated_after",
                                    IsoFormat(Today - retrieve_closed_days_ago))
                       ELSE DictSet(<<>>, "state", "opened")
         IN IF label = None THEN Returned(DictSet(<<>>, "params", params))
            ELSE Returned(DictSet(<<>>, "params", DictSet(params, "labels", label)))

\* ForgejoRepository.get_issue_params(self, closed)
ForgejoGetIssueParams(args, label, retrieve_closed_days_ago) ==
    IF Len(args) # 1 THEN RaisedInstead("TypeError")
    ELSE LET closed == args[1]
             params == IF closed
                       THEN DictSet(DictSet(<<>>, "state", "closed"), "since",
                                    IsoFormat(Today - retrieve_closed_days_ago))
                       ELSE <<>>
         IN IF label = None THEN Returned(DictSet(<<>>, "params", params))
            ELSE Returned(DictSet(<<>>, "params", DictSet(params, "labels", label)))

\* repo.get_issue_params(*args) for the repository class of the adapter.
get_issue_params(adapter, args, label, retrieve_closed_days_ago) ==
    CASE adapter = "pagure" -> PagureGetIssueParams(args, label, retrieve_closed_days_ago)
      [] adapter = "github" -> GitHubGetIssueParams(args, label, retrieve_closed_days_ago)
      [] adapter = "gitlab" -> GitLabGetIssueParams(args, label, retrieve_closed_days_ago)
      [] adapter = "forgejo" -> ForgejoGetIssueParams(args, label, retrieve_closed_days_ago)

\* Every adapter, label filter, lookback window and value of closed; the
\* call is the one Repository.get_issues makes, get_issue_params(closed).
InitIssueParams ==
    /\ EngineIdle
    /\ \E a \in Adapters, c \in BOOLEAN, l \in RepoLabels, d \in LookbackDays :
          input = [fn |-> "get_issue_params", adapter |-> a, closed |-> c, label |-> l,
                   retrieve_closed_days_ago |-> d]
    /\ output = <<>>
    /\ fetch = <<>>

GetIssueParams ==
    /\ output = <<>>
    /\ output' = <<get_issue_params(input.adapter, <<input.closed>>, input.label,
                                    input.retrieve_closed_days_ago)>>
    /\ UNCHANGED <<engine_vars, input, fetch>>

NextIssueParams == GetIssueParams

SpecIssueParams == InitIssueParams /\ [][NextIssueParams]_vars

---------------------------------------------------------------------------
(* C29: open or recently closed issues, and the label filter *)

IssueParamsCalled == output # <<>> /\ input.fn = "get_issue_params"

\* The query parameters of the result ({} when the result has none).
QueryParams(kwargs) == IF "params" \in DOMAIN kwargs THEN kwargs["params"] ELSE <<>>

\* The names each forge's REST API gives to the label filter, to the state
\* filter and to the "changed since" filter, and its word for closed.
LabelParam(adapter) == IF adapter = "pagure" THEN "tags" ELSE "labels"
StateParam(adapter) == IF adapter = "pagure" THEN "status" ELSE "state"
SinceParam(adapter) == IF adapter = "gitlab" THEN "updated_after" ELSE "since"
ClosedWord(adapter) == IF adapter = "pagure" THEN "Closed" ELSE "closed"
OpenWords(adapter) ==
    CASE adapter = "pagure" -> {"Open"} [] adapter = "gitlab" -> {"opened"} [] OTHER -> {"open"}

\* Open issues are selected by the forge's word for open, or by leaving the
\* state filter out where open is the API's default (every forge but GitLab).
SelectsOpen(adapter, params) ==
    /\ StateParam(adapter) \in DOMAIN params => params[StateParam(adapter)] \in OpenWords(adapter)
    /\ adapter = "gitlab" => StateParam(adapter) \in DOMAIN params
    /\ SinceParam(adapter) \notin DOMAIN params

SelectsClosedSince(adapter, params, day) ==
    /\ StateParam(adapter) \in DOMAIN params /\ params[StateParam(adapter)] = ClosedWord(adapter)
    /\ SinceParam(adapter) \in DOMAIN params /\ params[SinceParam(adapter)].day = day

LabelFilterIffSet(adapter, params, label) ==
    /\ label # None => LabelParam(adapter) \in DOMAIN params /\ params[LabelParam(adapter)] = label
    /\ label = None => LabelParam(adapter) \notin DOMAIN params

IssueParamsSelect(adapter) ==
    IssueParamsCalled /\ input.adapter = adapter =>
        /\ output[1].error = None
        /\ LET params == QueryParams(output[1].value)
           IN /\ ~input.closed => SelectsOpen(adapter, params)
              /\ input.closed =>
                    SelectsClosedSince(adapter, params,
                                       Today - input.retrieve_closed_days_ago)
              /\ LabelFilterIffSet(adapter, params, input.label)

\* C29: for every forge kind get_issue_params(closed=False) selects the open
\* issues, get_issue_params(closed=True) selects the closed issues changed
\* within the lookback window, and both include the repository's label
\* filter exactly when one is set.
C29_IssueParamsSelect == \A adapter \in Adapters : IssueParamsSelect(adapter)

\* The same for the three adapters whose get_issue_params takes closed.
IssueParamsSelectUnlessGitHub == \A adapter \in Adapters \ {"github"} : IssueParamsSelect(adapter)

---------------------------------------------------------------------------
(* The forge adapters: get_next_page *)

\* APIBase._requests_params and APIBase.sanitize_requests_params
requests_params == {"url", "params", "data", "json", "headers", "cookies"}
sanitize_requests_params(params) == [k \in DOMAIN params \cap requests_params |-> params[k]]

\* urllib.parse.quote_plus on the repository's name, str.lstrip("/") on the
\* endpoint.
QuotePlus(name) == CASE name = "ns/app" -> "ns%2Fapp" [] OTHER -> name
Endpoints == {None, "issues", "/issues"}
LstripSlash(endpoint) == CASE endpoint = "/issues" -> "issues" [] OTHER -> endpoint

\* get_base_url() of the four Repository classes.
get_base_url(adapter) ==
    CASE adapter = "pagure" -> InstanceApiUrl \o "/" \o RepoName
      [] adapter = "github" -> InstanceApiUrl \o "/repos/" \o RepoName
      [] adapter = "gitlab" -> InstanceApiUrl \o "/projects/" \o QuotePlus(RepoName)
      [] adapter = "forgejo" -> InstanceApiUrl \o "/repos/" \o RepoName

\* f"{self.get_base_url()}{endpoint}" after the normalisation of endpoint.
FirstPageUrl(adapter, endpoint) ==
    IF endpoint # None /\ endpoint # ""
    THEN get_base_url(adapter) \o "/" \o LstripSlash(endpoint)
    ELSE get_base_url(adapter)

\* A variant that takes every response for missing.
NeverTruthy(response) == FALSE

\* A response is <<>> (None) or <<r>>; bool(r) is r.ok, a status below 400.
Truthy(response) == response # <<>> /\ response[1].status < 400

\* not url
Falsy(url) == url = None \/ url = ""

\* A variant of Pagure's that sends the caller's parameters with the cursor.
PagureGetNextPageWithParams(token, endpoint, response, kwargs) ==
    IF Truthy(response)
    THEN LET url == response[1].json.pagination.next
         IN IF Falsy(url) THEN <<>>
            ELSE <<sanitize_requests_params(DictMerge(kwargs, DictSet(<<>>, "url", url)))>>
    ELSE <<sanitize_requests_params(
              DictMerge(kwargs, DictSet(<<>>, "url", FirstPageUrl("pagure", endpoint))))>>

\* PagureBase.get_next_page
PagureGetNextPage(token, endpoint, response, kwargs) ==
    IF Truthy(response)
    THEN LET api_result == response[1].json
             url == api_result.pagination.next
         IN IF Falsy(url) THEN <<>> ELSE <<DictSet(<<>>, "url", url)>>
    ELSE <<sanitize_requests_params(
              DictMerge(kwargs, DictSet(<<>>, "url", FirstPageUrl("pagure", endpoint))))>>

\* A variant that follows the first link of the header, whatever its rel.
FirstLink(links) == IF links = <<>> THEN <<>> ELSE <<Head(links).url>>

\* The loop over parse_header_links(response.headers["link"]): the URL of
\* the first link whose rel is "next", <<>> when the loop falls through.
RECURSIVE NextLink(_)
NextLink(links) ==
    IF links = <<>> THEN <<>>
    ELSE IF Head(links).rel = "next" THEN <<Head(links).url>>
    ELSE NextLink(Tail(links))

\* What GitHubBase, GitLabBase and ForgejoBase.get_next_page have in common;
\* they differ in the page-size parameter and in the headers they start from.
HeaderLinkNextPage(adapter, per_page, size, _headers0, endpoint, response, kwargs) ==
    LET params == IF "params" \in DOMAIN kwargs THEN kwargs["params"] ELSE <<>>
        headers == IF "headers" \in DOMAIN kwargs THEN kwargs["headers"] ELSE <<>>
        rest == DictPop(DictPop(kwargs, "params"), "headers")
        _headers == DictMerge(_headers0, headers)
        Request(_params, url) ==
            sanitize_requests_params(
                DictMerge(DictSet(DictSet(rest, "headers", _headers), "params", _params),
                          DictSet(<<>>, "url", url)))
    IN IF Truthy(response)
       THEN IF "link" \notin DOMAIN response[1].headers THEN <<>>
            ELSE LET next == NextLink(response[1].headers["link"])
                 IN IF next = <<>> THEN <<>>
                    ELSE <<Request(DictPop(params, per_page), next[1])>>
       ELSE <<Request(DictSetDefault(params, per_page, size), FirstPageUrl(adapter, endpoint))>>

\* GitHubBase.get_next_page
GitHubGetNextPage(token, endpoint, response, kwargs) ==
    LET accept == DictSet(DictSet(<<>>, "Accept", "application/vnd.github+json"),
                          "X-GitHub-Api-Version", "2022-11-28")
        _headers == IF token # None THEN DictSet(accept, "Authorization", "Bearer " \o token)
                    ELSE accept
    IN HeaderLinkNextPage("github", "per_page", "100", _headers, endpoint, response, kwargs)

\* GitLabBase.get_next_page
GitLabGetNextPage(token, endpoint, response, kwargs) ==
    LET _headers == IF token # None THEN DictSet(<<>>, "Authorization", "Bearer " \o token)
                    ELSE <<>>
    IN HeaderLinkNextPage("gitlab", "per_page", "100", _headers, endpoint, response, kwargs)

\* ForgejoBase.get_next_page
ForgejoGetNextPage(token, endpoint, response, kwargs) ==
    LET _headers == IF token # None
                    THEN DictSet(<<>>, "AuthorizationHeaderToken", "token " \o token)
                    ELSE <<>>
    IN HeaderLinkNextPage("forgejo", "limit", "50", _headers, endpoint, response, kwargs)

\* obj.get_next_page(endpoint=..., response=..., **kwargs) for the class of
\* the adapter: <<>> for None, <<request>> for the arguments of requests.get.
get_next_page(adapter, token, endpoint, response, kwargs) ==
    CASE adapter = "pagure" -> PagureGetNextPage(token, endpoint, response, kwargs)
      [] adapter = "github" -> GitHubGetNextPage(token, endpoint, response, kwargs)
      [] adapter = "gitlab" -> GitLabGetNextPage(token, endpoint, response, kwargs)
      [] adapter = "forgejo" -> ForgejoGetNextPage(token, endpoint, response, kwargs)

\* The previous responses get_next_page is handed: the loops around it raise
\* on an error status, so these are answers with a status below 400, each
\* with or without a Link header and a pagination.next.
NextUrl == "https://forge.example/api/next"
LinkFirst == [rel |-> "first", url |-> "https://forge.example/api/first"]
LinkNext == [rel |-> "next", url |-> NextUrl]
LinkHeaders ==
    {<<>>, DictSet(<<>>, "link", <<LinkFirst>>), DictSet(<<>>, "link", <<LinkFirst, LinkNext>>),
     DictSet(<<>>, "link", <<LinkNext>>)}
PreviousResponses ==
    {<<>>} \cup {<<[status |-> s, headers |-> h, json |-> [pagination |-> [next |-> n]]]>> :
                    s \in {200, 304}, h \in LinkHeaders, n \in {None, "", NextUrl}}

\* The keyword arguments of the caller: query parameters (with or without
\* a page size of its own), extra headers, and one that requests.get does
\* not know.
CallerParams ==
    {<<>>, DictSet(<<>>, "labels", "sync"),
     DictSet(DictSet(DictSet(<<>>, "labels", "sync"), "per_page", "20"), "limit", "20")}
CallerKwargs ==
    {<<>>, DictSet(<<>>, "verbose", "yes")}
    \cup {DictSet(<<>>, "params", p) : p \in CallerParams}
    \cup {DictSet(DictSet(<<>>, "params", p), "headers", DictSet(<<>>, "the-header", "the-value")) :
             p \in CallerParams}

InitNextPage ==
    /\ EngineIdle
    /\ \E a \in Adapters, t \in {None, "TOKEN"}, e \in Endpoints, r \in PreviousResponses,
          k \in CallerKwargs :
          input = [fn |-> "get_next_page", adapter |-> a, token |-> t, endpoint |-> e,
                   response |-> r, kwargs |-> k]
    /\ output = <<>>
    /\ fetch = <<>>

GetNextPage ==
    /\ output = <<>>
    /\ output' = <<get_next_page(input.adapter, input.token, input.endpoint, input.response,
                                 input.kwargs)>>
    /\ UNCHANGED <<engine_vars, input, fetch>>

NextNextPage == GetNextPage

SpecNextPage == InitNextPage /\ [][NextNextPage]_vars

---------------------------------------------------------------------------
(* C27: the next page of the adapters that read the Link header *)

NextPageCalled == output # <<>> /\ input.fn = "get_next_page"
HeaderLinkAdapters == {"github", "gitlab", "forgejo"}
PageSizeParam(adapter) == IF adapter = "forgejo" THEN "limit" ELSE "per_page"

\* The URLs the Link header of the previous response gives with rel="next".
NextRelUrls(response) ==
    IF "link" \notin DOMAIN response[1].headers THEN {}
    ELSE LET links == response[1].headers["link"]
         IN {links[i].url : i \in {j \in DOMAIN links : links[j].rel = "next"}}

CallerQueryParams == QueryParams(input.kwargs)

\* C27: GitHub, GitLab and Forgejo: after a previous response get_next_page
\* is None when the response has no Link header or no rel="next" link, and
\* otherwise the request for exactly the rel="next" URL with the caller's
\* parameters less the page size; without a previous response it is the
\* request for base URL plus endpoint with the page size set.
C27_HeaderLinkNextPage ==
    NextPageCalled /\ input.adapter \in HeaderLinkAdapters =>
        LET next_page == output[1]
            per_page == PageSizeParam(input.adapter)
        IN IF input.response # <<>>
           THEN IF NextRelUrls(input.response) = {} THEN next_page = <<>>
                ELSE /\ next_page # <<>>
                     /\ next_page[1]["url"] \in NextRelUrls(input.response)
                     /\ per_page \notin DOMAIN next_page[1]["params"]
                     /\ next_page[1]["params"] = DictPop(CallerQueryParams, per_page)
           ELSE /\ next_page # <<>>
                /\ next_page[1]["url"] = FirstPageUrl(input.adapter, input.endpoint)
                /\ per_page \in DOMAIN next_page[1]["params"]
                /\ \A k \in DOMAIN CallerQueryParams :
                      next_page[1]["params"][k] = CallerQueryParams[k]

\* A response with a rel="next" link after a rel="first" one has been
\* followed, for a caller that had set the page size itself.
C27_Witness ==
    /\ NextPageCalled /\ input.adapter \in HeaderLinkAdapters
    /\ input.response # <<>>
    /\ "link" \in DOMAIN input.response[1].headers
    /\ Len(input.response[1].headers["link"]) = 2
    /\ PageSizeParam(input.adapter) \in DOMAIN CallerQueryParams
    /\ output[1] # <<>> /\ output[1][1]["url"] = NextUrl

---------------------------------------------------------------------------
(* C28: the next page of Pagure *)

---------------------------------------------------------------------------
(* Repository.get_issues, statement by statement *)

MaxPages == 2

\* The forge answers the first request with its first page and the request
\* for the cursor of page k with page k. A page has a status and raw items;
\* every page but the last names its successor, in the Link header for
\* GitHub, GitLab and Forgejo and in the payload's pagination for Pagure.
Statuses == {200, 304, 404, 500}
PageShapes == {"empty", "pull+issue", "issues"}
Pages ==
    UNION {[1..n -> [status : Statuses, shape : PageShapes]] : n \in 1..MaxPages}

Digits == <<"1", "2", "3", "4", "5", "6", "7", "8", "9">>
PageUrl(k) == InstanceApiUrl \o "/issues?page=" \o Digits[k]

RawItem(k, j, pull_request) ==
    [id |-> <<k, j>>, pull_request |-> pull_request, state |-> "open", labels |-> {},
     assignee |-> None]
RawItems(k, shape) ==
    CASE shape = "empty" -> <<>>
      [] shape = "pull+issue" -> <<RawItem(k, 1, TRUE), RawItem(k, 2, FALSE)>>
      [] shape = "issues" -> <<RawItem(k, 1, FALSE), RawItem(k, 2, FALSE)>>

PageOf(pages, url) ==
    IF \E k \in DOMAIN pages : k > 1 /\ PageUrl(k) = url
    THEN CHOOSE k \in DOMAIN pages : k > 1 /\ PageUrl(k) = url
    ELSE 1

\* requests.get(**next_page): the forge's answer to the request.
requests_get(adapter, pages, next_page) ==
    LET k == PageOf(pages, next_page["url"])
        items == RawItems(k, pages[k].shape)
        more == k < Len(pages)
    IN [status |-> pages[k].status,
        headers |-> IF adapter = "pagure" THEN <<>>
                    ELSE IF more
                    THEN DictSet(<<>>, "link",
                                 <<LinkFirst, [rel |-> "next", url |-> PageUrl(k + 1)]>>)
                    ELSE DictSet(<<>>, "link", <<LinkFirst>>),
        json |-> IF adapter = "pagure"
                 THEN [issues |-> items,
                       pagination |-> [next |-> IF more THEN PageUrl(k + 1) ELSE None]]
                 ELSE items]

\* _api_result_selectors of the Repository class and select_from_result
\* (the selectors of the adapters have one segment).
api_result_selectors(adapter) ==
    IF adapter = "pagure" THEN DictSet(<<>>, "issues", "issues") ELSE <<>>
select_from_result(result, selector) == IF selector = "" THEN result ELSE result[selector]

\* The blocked_label and the token of the instance that is queried.
BlockedLabel == "blocked"
Token == "TOKEN"
LookbackOfInstance == 7

\* for issue in partial_issues: the pull requests are skipped, the others
\* normalized and appended; an exception of normalize_issue ends the loop.
RECURSIVE NormalizeLoop(_, _, _)
NormalizeLoop(adapter, partial_issues, issues) ==
    IF partial_issues = <<>> THEN Returned(issues)
    ELSE LET issue == Head(partial_issues)
         IN IF issue.pull_request THEN NormalizeLoop(adapter, Tail(partial_issues), issues)
            ELSE LET normalized == normalize_issue(adapter, BlockedLabel, issue)
                 IN IF normalized.error # None THEN RaisedInstead(normalized.error)
                    ELSE NormalizeLoop(adapter, Tail(partial_issues),
                                       Append(issues, [id |-> issue.id, issue |-> normalized]))

\* A variant of the loop's 404 branch that tolerates no status.
NothingTolerated(first_call, status) == FALSE

\* elif first_call and response.status_code == requests.codes.not_found
NotFoundOnFirstCall(first_call, status) == first_call /\ status = 404

\* response.raise_for_status() raises for the client and server errors.
raise_for_status(status) == status >= 400 /\ status < 600

\* The pages are finitely many, so the requests of one fetch are too.
MaxRequests == MaxPages + 1

InitFetch ==
    /\ EngineIdle
    /\ \E a \in Adapters, c \in BOOLEAN, p \in Pages :
          input = [fn |-> "get_issues", adapter |-> a, closed |-> c, label |-> None,
                   pages |-> p]
    /\ output = <<>>
    /\ fetch = [pc |-> "params", kwargs |-> <<>>, issues |-> <<>>, response |-> <<>>,
                first_call |-> TRUE, next_page |-> <<>>, requests |-> <<>>]

\* kwargs = self.get_issue_params(closed), then the locals of the loop.
FetchIssueParams ==
    /\ fetch # <<>> /\ fetch.pc = "params"
    /\ LET r == get_issue_params(input.adapter, <<input.closed>>, input.label,
                                 LookbackOfInstance)
       IN IF r.error # None
          THEN /\ fetch' = [fetch EXCEPT !.pc = "raised"]
               /\ output' = <<RaisedInstead(r.error)>>
          ELSE /\ fetch' = [fetch EXCEPT !.pc = "next_page", !.kwargs = r.value,
                                         !.issues = <<>>, !.response = <<>>,
                                         !.first_call = TRUE]
               /\ output' = output
    /\ UNCHANGED <<engine_vars, input>>

\* while next_page := self.get_next_page(...): the loop ends on None and
\* get_issues returns the issues.
FetchNextPage ==
    /\ fetch # <<>> /\ fetch.pc = "next_page"
    /\ LET next_page == get_next_page(input.adapter, Token, "issues", fetch.response,
                                      fetch.kwargs)
       IN IF next_page = <<>>
          THEN /\ fetch' = [fetch EXCEPT !.pc = "returned", !.next_page = <<>>]
               /\ output' = <<Returned(fetch.issues)>>
          ELSE /\ fetch' = [fetch EXCEPT !.pc = "get", !.next_page = next_page]
               /\ output' = output
    /\ UNCHANGED <<engine_vars, input>>

\* response = requests.get(**next_page)
FetchRequestsGet ==
    /\ fetch # <<>> /\ fetch.pc = "get"
    /\ Len(fetch.requests) < MaxRequests
    /\ fetch' = [fetch EXCEPT !.pc = "response",
                              !.response = <<requests_get(input.adapter, input.pages,
                                                          fetch.next_page[1])>>,
                              !.requests = Append(@, fetch.next_page[1])]
    /\ UNCHANGED <<engine_vars, input, output>>

\* The body of the loop after the request.
FetchHandleResponse ==
    /\ fetch # <<>> /\ fetch.pc = "response"
    /\ LET response == fetch.response[1]
           selectors == api_result_selectors(input.adapter)
           api_result == response.json
           partial_issues == IF "issues" \in DOMAIN selectors
                             THEN select_from_result(api_result, selectors["issues"])
                             ELSE api_result
           appended == NormalizeLoop(input.adapter, partial_issues, fetch.issues)
       IN IF response.status = 200
          THEN IF appended.error # None
               THEN /\ fetch' = [fetch EXCEPT !.pc = "raised"]
                    /\ output' = <<RaisedInstead(appended.error)>>
               ELSE /\ fetch' = [fetch EXCEPT !.pc = "next_page", !.issues = appended.value,
                                              !.first_call = FALSE]
                    /\ output' = output
          ELSE IF NotFoundOnFirstCall(fetch.first_call, response.status)
          THEN /\ fetch' = [fetch EXCEPT !.pc = "returned"]
               /\ output' = <<Returned(fetch.issues)>>
          ELSE IF raise_for_status(response.status)
          THEN /\ fetch' = [fetch EXCEPT !.pc = "raised"]
               /\ output' = <<RaisedInstead("HTTPError")>>
          ELSE /\ fetch' = [fetch EXCEPT !.pc = "next_page", !.first_call = FALSE]
               /\ output' = output
    /\ UNCHANGED <<engine_vars, input>>

NextFetch ==
    \/ FetchIssueParams
    \/ FetchNextPage
    \/ FetchRequestsGet
    \/ FetchHandleResponse

SpecFetch == InitFetch /\ [][NextFetch]_vars

\* get_issues is sequential code: it takes its next step as long as it has
\* one.
SpecFetchLive == InitFetch /\ [][NextFetch]_vars /\ WF_vars(NextFetch)

FetchDone == output # <<>> /\ input.fn = "get_issues"
FetchReturned == FetchDone /\ output[1].error = None
FetchRaised == FetchDone /\ output[1].error # None

\* The statuses of the answers get_issues has received, in order.
StatusesReceived ==
    [k \in 1..Len(fetch.requests) |->
        input.pages[PageOf(input.pages, fetch.requests[k]["url"])].status]

\* No fetch asks for more than the forge's pages.
RequestsWithinPages ==
    input # <<>> /\ input.fn = "get_issues" => Len(fetch.requests) <= Len(input.pages)

---------------------------------------------------------------------------
(* C21: a 404 on the first request *)

FirstAnswerNotFound ==
    /\ input.fn = "get_issues" /\ fetch.pc # "get"
    /\ fetch.requests # <<>> /\ StatusesReceived[1] = 404

\* C21: when the very first request of the fetch loop is answered with 404,
\* get_issues returns the empty list, raises nothing and makes no further
\* request.
C21_FirstNotFoundIsEmpty ==
    FirstAnswerNotFound =>
        /\ Len(fetch.requests) = 1
        /\ fetch.pc \in {"response", "returned"}
        /\ FetchDone => output[1] = Returned(<<>>)

\* The forge had a second page to offer, and the fetch has ended after the
\* 404 to its first request.
C21_Witness ==
    /\ FetchDone /\ FirstAnswerNotFound
    /\ Len(input.pages) = 2 /\ input.pages[2].status = 200
    /\ fetch.pc = "returned"

---------------------------------------------------------------------------
(* C22: every other status outside 2xx *)

\* The k-th answer ends the fetch with an exception: no request follows it
\* and get_issues raises instead of returning a list.
AnswerIsFatal(k) ==
    /\ k = Len(fetch.requests)
    /\ fetch.pc \in {"response", "raised"}
    /\ FetchDone => FetchRaised

Tolerated(k) == k = 1 /\ StatusesReceived[k] = 404

\* C22: get_issues raises, and returns no partial list, whenever an answer
\* has a status outside 2xx, except for a 404 to the first request of the
\* loop; a 404 to a later request raises too.
C22_OtherStatusRaises ==
    input.fn = "get_issues" =>
        \A k \in DOMAIN StatusesReceived :
            StatusesReceived[k] \notin 200..299 /\ ~Tolerated(k) => AnswerIsFatal(k)

\* The same for the statuses raise_for_status() raises for, 400 to 599.
ErrorStatusRaises ==
    input.fn = "get_issues" =>
        \A k \in DOMAIN StatusesReceived :
            StatusesReceived[k] >= 400 /\ ~Tolerated(k) => AnswerIsFatal(k)

\* A 404 to the second request has been raised.
NotFoundOnSecondPageRaised ==
    /\ FetchRaised /\ Len(fetch.requests) = 2 /\ StatusesReceived[2] = 404
    /\ output[1].error = "HTTPError"

---------------------------------------------------------------------------
(* SyncManager.retrieve_forge_issues: the calls of get_issues *)

\* The configured instances and their repositories, in the order of the
\* configuration. A repository's enabled is <<>> when unset (the attribute
\* then comes from the instance, Repository.__getattr__) or <<flag>>.
InstanceNames == <<"hub", "lab">>
RepoNames == <<"app", "old">>
RepoSpecs == [enabled : {<<>>, <<TRUE>>, <<FALSE>>}]
InstanceSpecs ==
    [enabled : BOOLEAN, retrieve_closed_days_ago : {0, 7},
     repositories : [Range(RepoNames) -> RepoSpecs]]

\* The get_issues call, counted from 1, that raises (0: none does).
RaisingCalls == {0, 1, 3}

\* A variant that takes every repository for enabled.
AlwaysEnabled(instance_spec, repo_spec) == TRUE

\* repo.enabled
RepoEnabled(instance_spec, repo_spec) ==
    IF repo_spec.enabled = <<>> THEN instance_spec.enabled ELSE repo_spec.enabled[1]

\* repo.get_issues(closed=...): the call is noted; it raises or returns the
\* issues of the repository, which are added to the collection.
GetIssuesCall(w, instance_name, repo_name, closed, raising) ==
    LET call == [instance |-> instance_name, repository |-> repo_name, closed |-> closed]
    IN IF Len(w.calls) + 1 = raising
       THEN [w EXCEPT !.calls = Append(@, call), !.error = "HTTPError"]
       ELSE [w EXCEPT !.calls = Append(@, call), !.issues = Append(@, call)]

\* for repo in instance.repositories.values()
RECURSIVE RepoLoop(_, _, _, _, _)
RepoLoop(w, instance_name, instance_spec, repo_names, raising) ==
    IF repo_names = <<>> \/ w.error # None THEN w
    ELSE LET repo_name == Head(repo_names)
             repo_spec == instance_spec.repositories[repo_name]
         IN IF ~RepoEnabled(instance_spec, repo_spec)
            THEN RepoLoop(w, instance_name, instance_spec, Tail(repo_names), raising)
            ELSE LET w1 == GetIssuesCall(w, instance_name, repo_name, FALSE, raising)
                     w2 == IF w1.error = None /\ instance_spec.retrieve_closed_days_ago # 0
                           THEN GetIssuesCall(w1, instance_name, repo_name, TRUE, raising)
                           ELSE w1
                 IN RepoLoop(w2, instance_name, instance_spec, Tail(repo_names), raising)

\* for instance in self._instances_by_name.values(): the dictionary holds
\* the instances whose configuration says enabled.
RECURSIVE InstanceLoop(_, _, _, _)
InstanceLoop(w, config, instance_names, raising) ==
    IF instance_names = <<>> \/ w.error # None THEN w
    ELSE LET instance_name == Head(instance_names)
         IN IF ~config[instance_name].enabled
            THEN InstanceLoop(w, config, Tail(instance_names), raising)
            ELSE InstanceLoop(RepoLoop(w, instance_name, config[instance_name], RepoNames,
                                       raising),
                              config, Tail(instance_names), raising)

\* SyncManager.retrieve_forge_issues for a SyncManager built from config.
retrieve_forge_issues_of(config, raising) ==
    InstanceLoop([error |-> None, calls |-> <<>>, issues |-> <<>>], config, InstanceNames,
                 raising)

InitForgeCalls ==
    /\ EngineIdle
    /\ \E config \in [Range(InstanceNames) -> InstanceSpecs], raising \in RaisingCalls :
          input = [fn |-> "retrieve_forge_issues", config |-> config, raising |-> raising]
    /\ output = <<>>
    /\ fetch = <<>>

RetrieveForgeIssuesOf ==
    /\ output = <<>>
    /\ output' = <<retrieve_forge_issues_of(input.config, input.raising)>>
    /\ UNCHANGED <<engine_vars, input, fetch>>

NextForgeCalls == RetrieveForgeIssuesOf

SpecForgeCalls == InitForgeCalls /\ [][NextForgeCalls]_vars

---------------------------------------------------------------------------
(* C23: which repositories are fetched, and which also for closed issues *)

ForgeCallsMade == output # <<>> /\ input.fn = "retrieve_forge_issues"

\* The enabled repositories of the enabled instances of the configuration.
EnabledRepositories ==
    {ir \in Range(InstanceNames) \X Range(RepoNames) :
        /\ input.config[ir[1]].enabled
        /\ LET e == input.config[ir[1]].repositories[ir[2]].enabled
           IN e = <<TRUE>> \/ e = <<>>}

\* How often get_issues was called for the repository with this closed.
CallCount(instance_name, repo_name, closed) ==
    Cardinality({k \in DOMAIN output[1].calls :
                    output[1].calls[k] = [instance |-> instance_name,
                                          repository |-> repo_name, closed |-> closed]})

\* C23: retrieve_forge_issues calls get_issues for open issues on exactly
\* the enabled repositories of the enabled instances, never on a disabled
\* repository or on a repository of a disabled instance, and calls
\* get_issues(closed=True) on a repository exactly when it is one of those
\* and its instance's lookback window is not zero.
C23_FetchedRepositories ==
    ForgeCallsMade =>
        /\ \A k \in DOMAIN output[1].calls :
              /\ <<output[1].calls[k].instance, output[1].calls[k].repository>>
                    \in EnabledRepositories
              /\ output[1].calls[k].closed =>
                    input.config[output[1].calls[k].instance].retrieve_closed_days_ago # 0
        /\ output[1].error = None =>
              \A i \in Range(InstanceNames), r \in Range(RepoNames) :
                  /\ CallCount(i, r, FALSE) = IF <<i, r>> \in EnabledRepositories THEN 1 ELSE 0
                  /\ CallCount(i, r, TRUE) =
                        IF /\ <<i, r>> \in EnabledRepositories
                           /\ input.config[i].retrieve_closed_days_ago # 0
                        THEN 1 ELSE 0

\* Two enabled instances, one with a lookback window and one without, each
\* with a disabled repository and one whose enabled is unset.
C23_Witness ==
    /\ ForgeCallsMade /\ output[1].error = None
    /\ input.config["hub"].enabled /\ input.config["hub"].retrieve_closed_days_ago = 7
    /\ input.config["lab"].enabled /\ input.config["lab"].retrieve_closed_days_ago = 0
    /\ \A i \in Range(InstanceNames) :
          /\ input.config[i].repositories["app"].enabled = <<>>
          /\ input.config[i].repositories["old"].enabled = <<FALSE>>
    /\ Len(output[1].calls) = 3

---------------------------------------------------------------------------
(* C24: the result of the matching partitions its input *)

\* The pairs of a result that hold the tracker issue, or the forge issue.
PairsOfJira(result, jira_issue) == {p \in result.matched : p.jira = jira_issue}
PairsOfForge(result, forge_issue) == {p \in result.matched : p.forge = forge_issue}

MatchPartitions(result, jira_issues, forge_order) ==
    /\ \A p \in result.matched :
          /\ get_full_url_from_jira_issue(p.jira) = p.forge.full_url
          /\ p.jira \in Range(jira_issues) /\ p.forge \in Range(forge_order)
    /\ result.unmatched_jira \subseteq Range(jira_issues)
    /\ result.unmatched_forge \subseteq Range(forge_order)
    /\ \A jira_issue \in Range(jira_issues) :
          \/ /\ Cardinality(PairsOfJira(result, jira_issue)) = 1
             /\ jira_issue \notin result.unmatched_jira
          \/ /\ PairsOfJira(result, jira_issue) = {}
             /\ jira_issue \in result.unmatched_jira
    /\ \A forge_issue \in Range(forge_order) :
          \/ /\ Cardinality(PairsOfForge(result, forge_issue)) = 1
             /\ forge_issue \notin result.unmatched_forge
          \/ /\ PairsOfForge(result, forge_issue) = {}
             /\ forge_issue \in result.unmatched_forge

\* C24: for any input, duplicate URLs included, every pair of the result of
\* match_jira_forge_issues has a tracker issue whose external URL is the
\* forge issue's full_url, no tracker issue and no forge issue is in two
\* pairs, and every tracker issue and every forge issue of the input is in
\* exactly one pair or else in the unmatched set of its kind.
C24_MatchPartitions ==
    Matched =>
        /\ MatchPartitions(output[1].first, input.jira_issues, input.forge_issues)
        /\ MatchPartitions(output[1].reordered, input.jira_issues_reordered,
                           input.forge_issues_reordered)

\* Two tracker issues with the same external URL met two forge issues with
\* that URL and a third tracker issue met none.
C24_Witness ==
    /\ Matched /\ ~DistinctMatchInput
    /\ \E a, b \in Range(input.jira_issues) : a # b /\ a.url = b.url
    /\ ~DistinctUrls(Range(input.forge_issues))
    /\ Cardinality(output[1].first.matched) = 2
    /\ output[1].first.unmatched_jira # {}

---------------------------------------------------------------------------
(* C25: every page once, every issue normalized *)

AllPagesOk == \A k \in DOMAIN input.pages : input.pages[k].status = 200

\* The request get_next_page derives from the answer to request k - 1 (from
\* no answer for the first request).
DerivedRequest(adapter, k) ==
    get_next_page(adapter, Token, "issues",
                  IF k = 1 THEN <<>>
                  ELSE <<requests_get(adapter, input.pages, fetch.requests[k - 1])>>,
                  get_issue_params(adapter, <<input.closed>>, input.label,
                                   LookbackOfInstance).value)

\* The raw items of the pages in page order, the pull requests left out.
RECURSIVE IssuesOfPages(_, _)
IssuesOfPages(pages, k) ==
    IF k > Len(pages) THEN <<>>
    ELSE SelectSeq(RawItems(k, pages[k].shape), LAMBDA item : ~item.pull_request)
         \o IssuesOfPages(pages, k + 1)

AllPagesFetched(adapter) ==
    input.fn = "get_issues" /\ input.adapter = adapter /\ AllPagesOk =>
        /\ \A k \in DOMAIN fetch.requests :
              /\ <<fetch.requests[k]>> = DerivedRequest(adapter, k)
              /\ PageOf(input.pages, fetch.requests[k]["url"]) = k
        /\ fetch.pc # "raised"
        /\ FetchDone =>
              /\ Len(fetch.requests) = Len(input.pages)
              /\ FetchReturned
              /\ LET expected == IssuesOfPages(input.pages, 1)
                 IN /\ Len(output[1].value) = Len(expected)
                    /\ \A n \in DOMAIN expected :
                          /\ output[1].value[n].id = expected[n].id
                          /\ output[1].value[n].issue =
                                normalize_issue(adapter, BlockedLabel, expected[n])
                          /\ output[1].value[n].issue.error = None

\* C25: when every page is answered with 200, get_issues requests each page
\* exactly once, every request being the one get_next_page derives from the
\* answer before it, and returns in page order the normalization of every
\* item of every page (taken through the selector where one is configured)
\* that is no pull request.
C25_AllPagesFetched == \A adapter \in Adapters : AllPagesFetched(adapter)

\* The same for GitLab, the adapter whose get_issue_params takes closed and
\* whose normalize_issue returns.
AllPagesFetchedGitLab == AllPagesFetched("gitlab")

\* GitLab: two pages with issues and a pull request have been fetched.
TwoPagesFetchedGitLab ==
    /\ FetchReturned /\ input.adapter = "gitlab" /\ AllPagesOk
    /\ Len(input.pages) = 2
    /\ input.pages[1].shape = "pull+issue" /\ input.pages[2].shape = "issues"
    /\ Len(output[1].value) = 3

\* Pagure and Forgejo: pages without issues are fetched one by one as well.
PagesWithoutIssuesFetched ==
    input.fn = "get_issues" /\ input.adapter \in {"pagure", "forgejo"} /\ AllPagesOk
    /\ (\A k \in DOMAIN input.pages : input.pages[k].shape = "empty") /\ FetchDone =>
        /\ Len(fetch.requests) = Len(input.pages)
        /\ output[1] = Returned(<<>>)

---------------------------------------------------------------------------
(* C26: the fetch loop terminates *)

\* How many requests get_next_page has handed out so far.
RequestsHandedOut == Len(fetch.requests) + (IF fetch.pc = "get" THEN 1 ELSE 0)

\* The loop has ended for one of its three reasons: get_next_page gave None,
\* the first request was answered with 404, or a statement raised.
EndedForAReason ==
    FetchDone =>
        \/ FetchRaised
        \/ /\ FetchReturned /\ fetch.next_page = <<>>
        \/ /\ FetchReturned /\ Len(fetch.requests) = 1 /\ StatusesReceived[1] = 404

\* C26: for a forge whose chain of next-page cursors is finite the fetch
\* loop terminates: it makes one GET for each request get_next_page hands
\* out, never more than the chain is long, and ends at the first None of
\* get_next_page, at a 404 to the first request or at the first exception.
C26_FetchTerminates ==
    /\ <>FetchDone
    /\ [](input.fn = "get_issues" =>
             /\ RequestsHandedOut <= Len(input.pages)
             /\ fetch.pc \in {"returned", "raised"} <=> FetchDone
             /\ EndedForAReason)

\* A fetch has ended after it went through a chain of two pages.
C26_Witness ==
    /\ FetchReturned /\ Len(input.pages) = 2 /\ Len(fetch.requests) = 2
    /\ fetch.next_page = <<>>

---------------------------------------------------------------------------
(* C30: story points from the labels *)

\* The story points of the labels that have an entry in the map.
PointsOfLabels(labels) ==
    {labels_to_story_points[l] : l \in labels \cap DOMAIN labels_to_story_points}

\* The greatest of them, 0 when there is none.
GreatestPoints(labels) ==
    IF PointsOfLabels(labels) = {} THEN 0
    ELSE CHOOSE p \in PointsOfLabels(labels) : \A q \in PointsOfLabels(labels) : q <= p

StoryPointsMax(adapter) ==
    Normalized /\ input.adapter = adapter =>
        /\ output[1].error = None
        /\ output[1].story_points = GreatestPoints(input.api_result.labels)

\* C30: for every forge kind normalize_issue sets story_points to the
\* greatest labels_to_story_points value among the issue's labels that have
\* an entry in the map, and to 0 when none has.
C30_StoryPointsMax == \A adapter \in Adapters : StoryPointsMax(adapter)

\* The same for GitLab alone.
StoryPointsMaxGitLab == StoryPointsMax("gitlab")

\* GitLab: an issue with both mapped labels got the greater value.
StoryPointsMaxGitLabReached ==
    /\ Normalized /\ input.adapter = "gitlab"
    /\ {"small", "large"} \subseteq input.api_result.labels
    /\ output[1].story_points = 5

\* GitHub: an issue with a mapped label got 0 story points.
GitHubStoryPointsZero ==
    /\ Normalized /\ input.adapter = "github"
    /\ "large" \in input.api_result.labels
    /\ output[1].error = None /\ output[1].story_points = 0

---------------------------------------------------------------------------
(* Instance.__init__ and query_repositories: the effective repositories *)

\* A Python dict with string keys whose order matters is a sequence of
\* entries [name, spec] with distinct names.
Keys(d) == {d[i].name : i \in DOMAIN d}
Lookup(d, name) == d[CHOOSE i \in DOMAIN d : d[i].name = name].spec

\* d | e with the operands exchanged: the entries of the left one win.
UnionLeftWins(d, e) ==
    d \o SelectSeq(e, LAMBDA entry : entry.name \notin Keys(d))

\* d | e (and d |= e): the keys of d in their order, then the new keys of e
\* in theirs; the value of a key of both is the one of e.
Union(d, e) ==
    [i \in DOMAIN d |-> IF d[i].name \in Keys(e)
                        THEN [name |-> d[i].name, spec |-> Lookup(e, d[i].name)]
                        ELSE d[i]]
    \o SelectSeq(e, LAMBDA entry : entry.name \notin Keys(d))

\* The order of the repository names as strings, and sorted() by it.
KeyOrder == <<"a", "b", "c", "d", "z">>
Rank(name) == CHOOSE i \in DOMAIN KeyOrder : KeyOrder[i] = name
SortedByKey(d) ==
    [j \in DOMAIN d |->
        d[CHOOSE i \in DOMAIN d :
             Cardinality({k \in DOMAIN d : Rank(d[k].name) < Rank(d[i].name)}) = j - 1]]

\* The repositories a listing may hold. GitHub alone reports "disabled";
\* Pagure's short listing says nothing about a project but its names.
RepoListed(full_name, has_issues, archived, disabled) ==
    [full_name |-> full_name, has_issues |-> has_issues, archived |-> archived,
     disabled |-> disabled]
ListedPlain == RepoListed("b", TRUE, FALSE, FALSE)
ListedAlso == RepoListed("a", TRUE, FALSE, FALSE)
ListedNoIssues == RepoListed("c", FALSE, FALSE, FALSE)
ListedArchived(adapter) == RepoListed("d", TRUE, adapter # "pagure", FALSE)
ListedDisabled(adapter) == RepoListed("z", TRUE, FALSE, adapter = "github")

\* The listings of a discovery spec: pages with a status and repositories.
Listings(adapter) ==
    { <<[status |-> 200, repos |-> <<ListedPlain, ListedAlso>>]>>,
      <<[status |-> 200, repos |-> <<ListedNoIssues, ListedPlain>>],
        [status |-> 200, repos |-> <<ListedArchived(adapter), ListedAlso>>]>>,
      <<[status |-> 200, repos |-> <<ListedDisabled(adapter)>>],
        [status |-> 200, repos |-> <<ListedAlso>>]>>,
      <<[status |-> 200, repos |-> <<ListedPlain>>], [status |-> 500, repos |-> <<>>]>> }

\* The statically configured repositories, in the order of the configuration.
StaticRepositories ==
    { <<>>, <<[name |-> "a", spec |-> "static"]>>,
      <<[name |-> "z", spec |-> "static"], [name |-> "a", spec |-> "static"]>>,
      <<[name |-> "c", spec |-> "static"]>> }

\* The condition under which a listed repository is taken.
RepoTaken(adapter, repo) ==
    CASE adapter = "github" -> repo.has_issues /\ ~repo.disabled /\ ~repo.archived
      [] adapter = "gitlab" -> repo.has_issues /\ ~repo.archived
      [] adapter = "forgejo" -> repo.has_issues /\ ~repo.archived
      [] adapter = "pagure" -> TRUE

\* repos |= {repo[name]: repo_params for repo in api_result if ...}
RECURSIVE TakeRepos(_, _, _, _)
TakeRepos(adapter, repos, listed, repo_params) ==
    IF listed = <<>> THEN repos
    ELSE TakeRepos(adapter,
                   IF RepoTaken(adapter, Head(listed))
                   THEN Union(repos, <<[name |-> Head(listed).full_name,
                                        spec |-> repo_params]>>)
                   ELSE repos,
                   Tail(listed), repo_params)

\* while next_page := self.get_next_page(...): the pages of the listing one
\* after the other; a page answered with an error status raises.
RECURSIVE ListingLoop(_, _, _, _, _)
ListingLoop(adapter, w, s, pages, k) ==
    IF k > Len(pages) \/ w.error # None THEN w
    ELSE LET requested == [w EXCEPT !.requests = Append(@, [spec |-> s, page |-> k])]
         IN IF pages[k].status = 200
            THEN ListingLoop(adapter,
                    [requested EXCEPT
                        !.repos = TakeRepos(adapter, @, pages[k].repos, input.specs[s].label)],
                    s, pages, k + 1)
            ELSE IF raise_for_status(pages[k].status)
            THEN [requested EXCEPT !.error = "HTTPError"]
            ELSE ListingLoop(adapter, requested, s, pages, k + 1)

\* for spec in self._query_repositories
RECURSIVE QuerySpecLoop(_, _, _)
QuerySpecLoop(adapter, w, s) ==
    IF s > Len(input.specs) \/ w.error # None THEN w
    ELSE IF ~input.specs[s].enabled THEN QuerySpecLoop(adapter, w, s + 1)
    ELSE QuerySpecLoop(adapter, ListingLoop(adapter, w, s, input.specs[s].listing, 1), s + 1)

\* <Kind>Instance.query_repositories
query_repositories(adapter) ==
    LET w == QuerySpecLoop(adapter, [error |-> None, repos |-> <<>>, requests |-> <<>>], 1)
    IN IF w.error # None THEN w ELSE [w EXCEPT !.repos = SortedByKey(@)]

\* Instance.__init__: repo_specs and self.repositories
InstanceInit(adapter, repositories) ==
    LET queried == IF input.specs # <<>> THEN query_repositories(adapter)
                   ELSE [error |-> None, repos |-> <<>>, requests |-> <<>>]
    IN [error |-> queried.error, requests |-> queried.requests, queried |-> queried.repos,
        repositories |-> IF queried.error # None THEN <<>>
                         ELSE Union(queried.repos, repositories)]

InitDiscovery ==
    /\ EngineIdle
    /\ \E a \in Adapters, e1, e2 \in BOOLEAN, r \in StaticRepositories, n \in 0..2 :
       \E l1, l2 \in Listings(a) :
          input = [fn |-> "Instance", adapter |-> a, repositories |-> r,
                   specs |-> SubSeq(<<[enabled |-> e1, label |-> "org", listing |-> l1],
                                      [enabled |-> e2, label |-> "user", listing |-> l2]>>,
                                    1, n)]
    /\ output = <<>>
    /\ fetch = <<>>

CreateInstance ==
    /\ output = <<>>
    /\ output' = <<InstanceInit(input.adapter, input.repositories)>>
    /\ UNCHANGED <<engine_vars, input, fetch>>

NextDiscovery == CreateInstance

SpecDiscovery == InitDiscovery /\ [][NextDiscovery]_vars

---------------------------------------------------------------------------
(* C31: a static repository overrides a discovered one *)

InstanceCreated == output # <<>> /\ input.fn = "Instance" /\ output[1].error = None

\* The keys that are both discovered and statically configured.
Collisions == Keys(output[1].queried) \cap Keys(input.repositories)

\* C31: when a key is among the discovered repositories and among the
\* statically configured ones, the instance's repository for that key is
\* built from the static configuration, not from the discovery spec.
C31_StaticWins ==
    InstanceCreated =>
        /\ \A name \in Collisions :
              Lookup(output[1].repositories, name) = Lookup(input.repositories, name)
        /\ \A i, j \in DOMAIN output[1].repositories :
              output[1].repositories[i].name = output[1].repositories[j].name => i = j
        /\ Keys(output[1].repositories) = Keys(output[1].queried) \cup Keys(input.repositories)

\* A repository was discovered that is also configured statically, next to
\* one that is discovered only.
C31_Witness ==
    /\ InstanceCreated /\ Collisions # {}
    /\ Keys(output[1].queried) \ Keys(input.repositories) # {}
    /\ \E name \in Collisions : Lookup(output[1].queried, name) # "static"

---------------------------------------------------------------------------
(* C32: the order of the effective repositories *)

AscendingKeys(d) == \A i, j \in DOMAIN d : i < j => Rank(d[i].name) < Rank(d[j].name)

\* C32: the effective repository set of an instance, the discovered
\* repositories merged with the static ones, iterates in ascending key
\* order.
C32_AscendingKeyOrder == InstanceCreated => AscendingKeys(output[1].repositories)

\* What query_repositories returns is in ascending key order.
DiscoveredAscending == InstanceCreated => AscendingKeys(output[1].queried)

\* Repositories of two listings were discovered, not in key order.
DiscoveredTwoListings ==
    /\ InstanceCreated /\ Len(output[1].queried) >= 2
    /\ Len(input.specs) = 2 /\ input.specs[1].enabled /\ input.specs[2].enabled
    /\ input.specs[1].listing[1].repos[1].full_name = "z"

---------------------------------------------------------------------------
(* C33: what discovery asks for and what it leaves out *)

\* The repositories listed to the instance by name.
ListedRepos ==
    UNION {UNION {Range(input.specs[s].listing[k].repos) :
                     k \in DOMAIN input.specs[s].listing} : s \in DOMAIN input.specs}

Unwanted(repo) == ~repo.has_issues \/ repo.archived \/ repo.disabled

DiscoveryFilters(adapter) ==
    output # <<>> /\ input.fn = "Instance" /\ input.adapter = adapter =>
        /\ \A i \in DOMAIN output[1].requests :
              /\ input.specs[output[1].requests[i].spec].enabled
              /\ \A j \in DOMAIN output[1].requests :
                    output[1].requests[i] = output[1].requests[j] => i = j
        /\ output[1].error = None =>
              /\ \A s \in DOMAIN input.specs :
                    input.specs[s].enabled =>
                        \A k \in DOMAIN input.specs[s].listing :
                            \E i \in DOMAIN output[1].requests :
                                output[1].requests[i] = [spec |-> s, page |-> k]
              /\ \A repo \in ListedRepos :
                    Unwanted(repo) => repo.full_name \notin Keys(output[1].queried)

\* C33: for every forge kind query_repositories pages through the listing
\* of each enabled discovery spec and of no disabled one, and never returns
\* a repository that is archived, disabled or has issue tracking turned off.
C33_DiscoveryFilters == \A adapter \in Adapters : DiscoveryFilters(adapter)

\* The same for the adapters whose listing tells the state of a repository.
DiscoveryFiltersUnlessPagure ==
    \A adapter \in Adapters \ {"pagure"} : DiscoveryFilters(adapter)

\* Pagure: a project without issue tracking was discovered.
PagureTakesNoIssues ==
    /\ InstanceCreated /\ input.adapter = "pagure"
    /\ "c" \in Keys(output[1].queried)

\* ---------------------------------------------------------------------
\* The tracker client's transition lookups and transitions, one call at
\* a time on one JIRA object.
\* ---------------------------------------------------------------------

\* The number of client calls made on one JIRA object.
MaxClientOps == 3

\* The issues the calls are about; project_statuses is keyed by the
\* issue, and two objects of one issue hash alike.
ClientKeys == 1 .. 2

\* The status names the issue objects carry when the calls begin.
ClientIssueStatuses == {<<"NEW", "NEW">>, <<"NEW", "IN_PROGRESS">>, <<"DONE", "NEW">>, <<"DONE", "IN_PROGRESS">>}

\* jira.transitions(issue): the tracker offers one transition per status
\* name of the workflow, with an id that depends on where the issue is.
jira_transitions(c, key) ==
    [name \in jira_status_values |-> c.tracker[key] \o ">" \o name]

\* JIRA.__init__: an empty project_statuses; nothing asked of the tracker.
ClientInit(issue_statuses) ==
    [project_statuses |-> <<>>,
     issue_status |-> issue_statuses,
     tracker |-> issue_statuses,
     lookups |-> <<>>,
     transitions |-> <<>>,
     ops |-> <<>>]

NeverCached(c, key) == FALSE

\* issue in self.project_statuses
Cached(c, key) == key \in DOMAIN c.project_statuses

\* JIRA._get_issue_transition_statuses: the new client state, the mapping
\* returned and whether the tracker was asked.
get_issue_transition_statuses(mode, c, key) ==
    IF mode = DRY_RUN
    THEN [client |-> [c EXCEPT !.lookups = Append(@, [key |-> key, result |-> <<>>, asked |-> FALSE])],
          result |-> <<>>]
    ELSE IF ~Cached(c, key)
         THEN LET answer == jira_transitions(c, key) IN
              [client |-> [c EXCEPT !.project_statuses = DictSet(@, key, answer),
                                    !.lookups = Append(@, [key |-> key, result |-> answer, asked |-> TRUE])],
               result |-> answer]
         ELSE [client |-> [c EXCEPT !.lookups = Append(@, [key |-> key, result |-> c.project_statuses[key], asked |-> FALSE])],
               result |-> c.project_statuses[key]]

AlwaysDiffers(name, status) == TRUE

\* issue.fields.status.name != status
StatusDiffers(name, status) == name # status

ClientOp(op, key, status, name, performed, error) ==
    [op |-> op, key |-> key, status |-> status, name |-> name,
     performed |-> performed, error |-> error]

\* JIRA.transition_issue: the issue object is not refreshed by the
\* transition, the tracker's issue is moved.
client_transition_issue(mode, c, key, status) ==
    LET name == c.issue_status[key] IN
    IF mode # READ_WRITE
    THEN [c EXCEPT !.ops = Append(@, ClientOp("transition_issue", key, status, name, FALSE, None))]
    ELSE IF StatusDiffers(name, status)
         THEN LET l == get_issue_transition_statuses(mode, c, key) IN
              IF status \notin DOMAIN l.result
              THEN [l.client EXCEPT !.ops = Append(@, ClientOp("transition_issue", key, status, name, FALSE, "KeyError"))]
              ELSE [l.client EXCEPT
                      !.transitions = Append(@, [key |-> key, id |-> l.result[status]]),
                      !.tracker[key] = status,
                      !.ops = Append(@, ClientOp("transition_issue", key, status, name, TRUE, None))]
         ELSE [c EXCEPT !.ops = Append(@, ClientOp("transition_issue", key, status, name, FALSE, None))]

client_lookup(mode, c, key) ==
    LET l == get_issue_transition_statuses(mode, c, key) IN
    [l.client EXCEPT !.ops = Append(@, ClientOp("lookup", key, None, c.issue_status[key], FALSE, None))]

InitClient ==
    /\ EngineIdle
    /\ \E mode \in JiraRunMode, s \in ClientIssueStatuses :
          input = [fn |-> "JIRA", run_mode |-> mode, issue_statuses |-> s]
    /\ output = <<>>
    /\ fetch = <<>>

\* The client the next call acts on.
Client == IF output = <<>> THEN ClientInit(input.issue_statuses) ELSE output[1]

GetIssueTransitionStatuses ==
    /\ input.fn = "JIRA"
    /\ Len(Client.ops) < MaxClientOps
    /\ \E key \in ClientKeys :
          output' = <<client_lookup(input.run_mode, Client, key)>>
    /\ UNCHANGED <<engine_vars, input, fetch>>

TransitionIssue ==
    /\ input.fn = "JIRA"
    /\ Len(Client.ops) < MaxClientOps
    /\ \E key \in ClientKeys, status \in jira_status_values :
          output' = <<client_transition_issue(input.run_mode, Client, key, status)>>
    /\ UNCHANGED <<engine_vars, input, fetch>>

NextClient == GetIssueTransitionStatuses \/ TransitionIssue

SpecClient == InitClient /\ [][NextClient]_vars

\* A JIRA object on which at least one call has been made.
ClientCalled == input.fn = "JIRA" /\ output # <<>>

\* The transition_issue calls made on the client so far.
TransitionOps(c) == {i \in DOMAIN c.ops : c.ops[i].op = "transition_issue"}

\* C38: transition_issue performs a tracker transition if and only if
\* the run mode is READ_WRITE and the status name of the issue differs
\* from the target status; an issue already at the target is left alone,
\* and the tracker sees one transition per performing call.
C38_TransitionIffDiffers ==
    ClientCalled =>
        LET c == output[1] IN
        /\ \A i \in TransitionOps(c) :
              c.ops[i].performed <=>
                  (input.run_mode = READ_WRITE /\ c.ops[i].name # c.ops[i].status)
        /\ Len(c.transitions) = Cardinality({i \in TransitionOps(c) : c.ops[i].performed})

\* A READ_WRITE client that has left one issue alone because it was at
\* the target already, and has transitioned another.
C38_Witness ==
    /\ ClientCalled
    /\ input.run_mode = READ_WRITE
    /\ LET c == output[1] IN
       /\ \E i \in TransitionOps(c) :
             c.ops[i].name = c.ops[i].status /\ ~c.ops[i].performed
       /\ \E i \in TransitionOps(c) :
             c.ops[i].name # c.ops[i].status /\ c.ops[i].performed

\* The lookups of the transitions of one issue, and those of them that
\* asked the tracker.
LookupsOf(c, key) == {i \in DOMAIN c.lookups : c.lookups[i].key = key}
AsksOf(c, key) == {i \in LookupsOf(c, key) : c.lookups[i].asked}

\* C39: outside DRY_RUN the tracker is asked for the transitions of an
\* issue at most once, and every lookup of that issue returns the mapping
\* the first one returned; in DRY_RUN every lookup returns the empty
\* mapping and the tracker is never asked.
C39_TransitionsCached ==
    ClientCalled =>
        LET c == output[1] IN
        IF input.run_mode = DRY_RUN
        THEN \A i \in DOMAIN c.lookups :
                c.lookups[i].result = <<>> /\ ~c.lookups[i].asked
        ELSE \A key \in ClientKeys :
                /\ Cardinality(AsksOf(c, key)) <= 1
                /\ \A i, j \in LookupsOf(c, key) :
                      c.lookups[i].result = c.lookups[j].result

\* An issue looked up a second time after a transition moved it: the
\* tracker would answer differently now, and the lookup returned the
\* mapping of the first answer.
C39_Witness ==
    /\ ClientCalled
    /\ input.run_mode = READ_WRITE
    /\ LET c == output[1] IN
       \E key \in ClientKeys :
          /\ Cardinality(LookupsOf(c, key)) >= 2
          /\ Cardinality(AsksOf(c, key)) = 1
          /\ \E i \in DOMAIN c.transitions : c.transitions[i].key = key
          /\ \E i \in LookupsOf(c, key) :
                c.lookups[i].result # jira_transitions(c, key)

\* ---------------------------------------------------------------------
\* The order of the steps of a pass and the pairs it reconciles
\* ---------------------------------------------------------------------

\* The positions sync_issues passes through, in the order of its
\* statements; a pass ends early only when a forge request raises.
StepOrder ==
    pc' # pc =>
        <<pc, pc'>> \in
            {<<"idle", "jira">>, <<"done", "jira">>, <<"failed", "jira">>,
             <<"jira", "forge">>, <<"forge", "matched">>, <<"matched", "closed">>,
             <<"closed", "created">>, <<"created", "done">>,
             <<"idle", "failed">>, <<"jira", "failed">>}

\* What each position has computed from what the position before left.
StepResults ==
    /\ pc \in {"matched", "closed", "created", "done"} =>
          LET m == match_jira_forge_issues(open_jira_issues, SetToSeq(forge_issues))
          IN /\ unmatched_jira_issues = m.unmatched_jira
             /\ unmatched_forge_issues = m.unmatched_forge
             /\ m.matched \subseteq matched_issues
    /\ pc \in {"jira", "forge", "matched"} => calls = <<>>
    /\ pc = "closed" => \A i \in DOMAIN calls : calls[i].step = "close"

\* The rank of a tracker call in the pass: close, then create, then
\* reconcile.
StepRank(step) ==
    CASE step = "close" -> 1 [] step = "create" -> 2 [] OTHER -> 3

\* No call of a later step comes before a call of an earlier step.
CallsInStepOrder ==
    \A i, j \in DOMAIN calls :
        i < j => StepRank(calls[i].step) <= StepRank(calls[j].step)

\* The pairs create-or-reopen returned: a closed tracker issue re-matched,
\* or the issue a create call returned, with its forge issue.
CreatedOrReopenedPairs ==
    {p \in matched_issues :
        \/ p.jira \in Range(closed_jira_issues)
        \/ \E i \in CallsOf("create") :
              calls[i].wrote /\ calls[i].key = p.jira.key /\ calls[i].url = p.forge.full_url}

\* The (tracker key, forge url) of the pairs reconcile went through; it
\* ends every pair with one update_issue call.
ReconciledPairs ==
    {<<calls[i].key, calls[i].url>> : i \in {j \in CallsOf("update") : calls[j].step = "reconcile"}}

\* The pairs of the matching step together with those of create-or-reopen.
PairsOfThePass ==
    match_jira_forge_issues(open_jira_issues, SetToSeq(forge_issues)).matched
        \cup CreatedOrReopenedPairs

\* C34: in every pass the steps run in the order retrieve and filter the
\* open tracker issues, retrieve the forge issues, match, close, create or
\* reopen, reconcile; reconcile goes through exactly the pairs of the
\* matching together with those of create-or-reopen, and no reconcile call
\* comes before the last close or create call of the pass.
C34_StepsInOrder ==
    /\ [][StepOrder]_vars
    /\ [](StepResults /\ CallsInStepOrder)
    /\ [](PassDone =>
            /\ matched_issues = PairsOfThePass
            /\ ReconciledPairs = {<<p.jira.key, p.forge.full_url>> : p \in PairsOfThePass})

\* A finished READ_WRITE pass that closed a tracker issue, created one,
\* and reconciled with a write a pair of the matching and a pair of
\* create-or-reopen.
C34_Witness ==
    /\ PassDone
    /\ run_mode = READ_WRITE
    /\ \E i \in CallsOf("transition") : calls[i].step = "close" /\ calls[i].wrote
    /\ \E i \in CallsOf("create") : calls[i].wrote
    /\ CreatedOrReopenedPairs # {}
    /\ \E p \in matched_issues \ CreatedOrReopenedPairs :
          \E i \in DOMAIN calls :
              calls[i].step = "reconcile" /\ calls[i].key = p.jira.key /\ calls[i].wrote

\* The transition calls of the pass for the tracker issue with the key.
TransitionCallsOf(key) == {i \in CallsOf("transition") : calls[i].key = key}

\* The keys of the tracker issues the close step called transition for.
ClosedKeys == {calls[i].key : i \in {j \in CallsOf("transition") : calls[j].step = "close"}}

\* C35: in one pass every tracker issue receives at most one transition
\* call: the issues the close step transitions and the issues of the
\* reconciled pairs are disjoint, and no tracker issue is in two pairs.
C35_OneTransitionPerIssue ==
    /\ \A key \in DOMAIN tracker : Cardinality(TransitionCallsOf(key)) <= 1
    /\ ClosedKeys \cap {p.jira.key : p \in matched_issues} = {}
    /\ \A p, q \in matched_issues : p.jira.key = q.jira.key => p = q

\* A finished READ_WRITE pass in which the close step transitioned one
\* tracker issue and reconcile transitioned another.
C35_Witness ==
    /\ PassDone
    /\ run_mode = READ_WRITE
    /\ \E i, j \in CallsOf("transition") :
          /\ calls[i].step = "close" /\ calls[i].wrote
          /\ calls[j].step = "reconcile" /\ calls[j].wrote
          /\ calls[i].key # calls[j].key

\* ---------------------------------------------------------------------
\* One whole pass on what the open and the closed fetch of a repository
\* returned
\* ---------------------------------------------------------------------

\* What repo.get_issues() may return: issues that are not closed, each
\* issue of the repository once.
OpenFetched ==
    { ForgeIssue("app", URL1, "new", None, 0),
      ForgeIssue("app", URL1, "assigned", "alice", 0),
      ForgeIssue("app", URL2, "new", None, 0) }

\* What repo.get_issues(closed=True) may return: closed issues.  The two
\* requests are made one after the other, and an issue that is closed
\* between them is in both answers.
ClosedFetched ==
    { ForgeIssue("app", URL1, "closed", None, 0),
      ForgeIssue("app", URL2, "closed", None, 0) }

\* SyncManager.retrieve_forge_issues on the two answers: issues.extend of
\* the open ones, then of the closed ones; match_jira_forge_issues makes a
\* set of the list.
ExtendIssues(open_fetched, closed_fetched) == open_fetched \cup closed_fetched

\* SyncManager.sync_issues from the tracker trk and the fetched forge
\* issues; the tracker accepts every create request.
sync_issues(trk, fetched) ==
    LET open == filter_open_jira_issues_by_forge_repo(
                    get_issues_by_labels(trk, SyncLabel, FALSE))
        m == match_jira_forge_issues(open, SetToSeq(fetched))
        w == close_jira_issues([tracker |-> trk, calls |-> <<>>],
                               SetToSeq(m.unmatched_jira))
        r == create_or_reopen_jira_issues(w, m.unmatched_forge, {})
        pairs == m.matched \cup r.matched
        done == reconcile_jira_forge_issues([tracker |-> r.tracker, calls |-> r.calls],
                                            pairs)
    IN [tracker |-> done.tracker, calls |-> done.calls, matched_issues |-> pairs,
        fetched |-> fetched]

InitPass ==
    /\ EngineIdle
    /\ \E S \in SUBSET TrackerFixtures, open_fetched \in SUBSET OpenFetched,
          closed_fetched \in SUBSET ClosedFetched :
          /\ Cardinality(S) <= 1
          /\ DistinctUrls(open_fetched)
          /\ DistinctUrls(closed_fetched)
          /\ input = [fn |-> "sync_issues", tracker |-> WithKeys(SetToSeq(S)),
                      open_fetched |-> open_fetched, closed_fetched |-> closed_fetched]
    /\ output = <<>>
    /\ fetch = <<>>

SyncIssues ==
    /\ input.fn = "sync_issues"
    /\ output = <<>>
    /\ output' = <<sync_issues(input.tracker,
                               ExtendIssues(input.open_fetched, input.closed_fetched))>>
    /\ UNCHANGED <<engine_vars, input, fetch>>

SpecPass == InitPass /\ [][SyncIssues]_vars

\* A pass has been made on the fetched issues.
PassMade == input.fn = "sync_issues" /\ output # <<>>

\* The create calls of a call sequence.
CreatesIn(cs) == {i \in DOMAIN cs : cs[i].op = "create"}

\* C36: in one pass create is called at most once per distinct full_url,
\* also when the fetched forge issues hold one full_url more than once.
C36_CreateOncePerUrl ==
    PassMade =>
        \A i, j \in CreatesIn(output[1].calls) :
            output[1].calls[i].url = output[1].calls[j].url => i = j

\* With pairwise distinct full_urls among the fetched issues create is
\* called at most once per full_url.
CreateOncePerUrlWhenDistinct ==
    (PassMade /\ DistinctUrls(output[1].fetched)) =>
        \A i, j \in CreatesIn(output[1].calls) :
            output[1].calls[i].url = output[1].calls[j].url => i = j

\* An issue that is in the open and in the closed answer, and for which
\* no tracker issue exists, gets two tracker issues in one pass.
CreatedTwiceForOneUrl ==
    /\ PassMade
    /\ input.tracker = <<>>
    /\ \E f \in input.open_fetched, g \in input.closed_fetched :
          /\ f.full_url = g.full_url
          /\ Cardinality({i \in CreatesIn(output[1].calls) :
                             output[1].calls[i].url = f.full_url /\ output[1].calls[i].wrote}) = 2

\* The pairs of a closed tracker issue that create-or-reopen re-matched
\* with a forge issue that is not closed.
RematchedWithOpen ==
    {p \in matched_issues :
        p.jira \in Range(closed_jira_issues) /\ p.forge.status # "closed"}

\* Reconcile called transition for the tracker issue of the pair with the
\* status mapped from the forge status, and in READ_WRITE the tracker
\* issue has that status.
Reopened(p) ==
    /\ \E i \in CallsOf("transition") :
          /\ calls[i].step = "reconcile"
          /\ calls[i].key = p.jira.key
          /\ calls[i].status = statuses[p.forge.status]
    /\ run_mode = READ_WRITE => tracker[p.jira.key].status = statuses[p.forge.status]

\* C37: when create-or-reopen pairs a closed tracker issue with a forge
\* issue that is not closed, reconcile transitions the tracker issue to
\* the status mapped from the forge status.
C37_RematchedIsReopened ==
    PassDone => \A p \in RematchedWithOpen : Reopened(p)

\* C37, amended: the same, unless the forge issue is new and the status of
\* the closed tracker issue is none of the configured status values (the
\* other of the two names the tracker query treats as closed); the guard
\* of the new status then leaves the tracker issue closed.
C37_RematchedIsReopenedUnlessGuarded ==
    PassDone =>
        \A p \in RematchedWithOpen :
            (p.forge.status = "new" /\ p.jira.status \notin jira_status_values)
                \/ Reopened(p)

\* A finished READ_WRITE pass that re-matched a closed tracker issue with
\* a forge issue that is not closed and reopened it.
C37_Witness ==
    /\ PassDone
    /\ run_mode = READ_WRITE
    /\ \E p \in RematchedWithOpen :
          /\ Reopened(p)
          /\ \E i \in CallsOf("transition") : calls[i].key = p.jira.key /\ calls[i].wrote

\* A finished pass that re-matched a tracker issue in the closed status
\* that is not configured with a new forge issue and left it closed.
RematchedLeftClosed ==
    /\ PassDone
    /\ \E p \in RematchedWithOpen :
          /\ p.forge.status = "new"
          /\ p.jira.status \notin jira_status_values
          /\ TransitionCallsOf(p.jira.key) = {}

\* ---------------------------------------------------------------------
\* The Bugzilla message consumer: consumer.Consumer
\* ---------------------------------------------------------------------

\* The number of messages one consumer is followed for.
MaxMessages == 2

BugUrls == {"https://bugzilla/show_bug.cgi?id=1", "https://bugzilla/show_bug.cgi?id=2"}

\* The entry of event.changes that says the mirror flag was set.
MirrorFlagAdded ==
    [added |-> "+", field |-> "flag.mirror", field_name |-> "flag.mirror", removed |-> ""]

\* Another change of the same flag: the mirror flag was requested.
MirrorFlagRequested ==
    [added |-> "?", field |-> "flag.mirror", field_name |-> "flag.mirror", removed |-> ""]

\* The messages: the bug's weburl and component, and body["event"] (<<>>
\* for a body without the key).
Messages ==
    {[weburl |-> u, component_name |-> "distribution", event |-> e] :
        u \in BugUrls,
        e \in {<<>>} \cup {<<[action |-> a, changes |-> c]>> :
                              a \in {"modify", "create"},
                              c \in SUBSET {MirrorFlagAdded, MirrorFlagRequested}}}

\* A tracker issue as the consumer's searches see it.
BugIssue(status, bz_url, summary) ==
    [status |-> status, bz_url |-> bz_url, summary |-> summary]

\* The issues the tracker may hold when the consumer starts: mirrored and
\* filled in by the tracker's automation, just created (the URL is the
\* summary), mirrored and closed since.
BugIssues ==
    {BugIssue("NEW", u, "title") : u \in BugUrls}
        \cup {BugIssue("NEW", None, u) : u \in BugUrls}
        \cup {BugIssue("DONE", u, "title") : u \in BugUrls}

\* JIRA.get_issues_by_labels(filters=[f]) for f a comparison of field with
\* url: no labels, closed=False, so the issues of the project that are not
\* in a closed status and pass the filter; nothing in DRY_RUN.
get_issues_by_filters(mode, trk, field, url) ==
    IF mode = DRY_RUN THEN {}
    ELSE {k \in DOMAIN trk :
            /\ trk[k].status \notin ClosedStatusNames
            /\ trk[k][field] = url}

ActOnEveryBug(message) == TRUE

\* Consumer._bug_to_act_on, for a message whose body has an event.
bug_to_act_on(message) ==
    /\ message.event[1].action = "modify"
    /\ MirrorFlagAdded \in message.event[1].changes

\* Consumer._look_for_jira_issue: the two searches, in order, with what
\* each returned; the keys found are those of the first followed by those
\* of the second.
look_for_jira_issue(mode, trk, bug_url) ==
    <<[filter |-> "BZ URL", found |-> get_issues_by_filters(mode, trk, "bz_url", bug_url)],
      [filter |-> "summary", found |-> get_issues_by_filters(mode, trk, "summary", bug_url)]>>

\* What handling one message did: the searches made, the create_issue
\* calls made and whether each changed the tracker, the exception that
\* Consumer.__call__ caught.
Handled(message, searches, creates, error) ==
    [message |-> message, searches |-> searches, creates |-> creates, error |-> error]

\* Consumer.__call__ with Consumer._handle: the tracker afterwards and what
\* was done; ok says whether the tracker accepts a create request.
consumer_handle(mode, trk, message, ok) ==
    IF message.event = <<>>
    THEN [tracker |-> trk, handled |-> Handled(message, <<>>, <<>>, "KeyError")]
    ELSE IF ~bug_to_act_on(message)
    THEN [tracker |-> trk, handled |-> Handled(message, <<>>, <<>>, None)]
    ELSE LET searches == look_for_jira_issue(mode, trk, message.weburl)
             existing_issues == searches[1].found \cup searches[2].found
             labels == {SyncLabel, "bugzilla", message.component_name}
         IN IF existing_issues # {}
            THEN [tracker |-> trk, handled |-> Handled(message, searches, <<>>, None)]
            ELSE IF mode = READ_WRITE /\ ok
            THEN [tracker |-> Append(trk, BugIssue(InitialStatus, None, message.weburl)),
                  handled |-> Handled(message, searches,
                                      <<[url |-> message.weburl, labels |-> labels,
                                         wrote |-> TRUE]>>, None)]
            ELSE [tracker |-> trk,
                  handled |-> Handled(message, searches,
                                      <<[url |-> message.weburl, labels |-> labels,
                                         wrote |-> FALSE]>>, None)]

InitConsumer ==
    /\ EngineIdle
    /\ \E mode \in JiraRunMode, S \in SUBSET BugIssues :
          /\ Cardinality(S) <= 1
          /\ input = [fn |-> "Consumer", run_mode |-> mode, tracker |-> SetToSeq(S)]
    /\ output = <<>>
    /\ fetch = <<>>

\* The consumer before its next message: the tracker and what the
\* messages so far led to, with the tracker each of them found.
ConsumerState ==
    IF output = <<>> THEN [tracker |-> input.tracker, handled |-> <<>>, found |-> <<>>]
    ELSE output[1]

\* Consumer.__call__(message)
Consume ==
    /\ input.fn = "Consumer"
    /\ Len(ConsumerState.handled) < MaxMessages
    /\ \E message \in Messages, ok \in BOOLEAN :
          LET r == consumer_handle(input.run_mode, ConsumerState.tracker, message, ok)
          IN output' = <<[tracker |-> r.tracker,
                          handled |-> Append(ConsumerState.handled, r.handled),
                          found |-> Append(ConsumerState.found, ConsumerState.tracker)]>>
    /\ UNCHANGED <<engine_vars, input, fetch>>

SpecConsumer == InitConsumer /\ [][Consume]_vars

\* A consumer that has been given at least one message.
Consumed == input.fn = "Consumer" /\ output # <<>>

\* The message is a modify event that adds the mirror flag.
AddsMirrorFlag(message) ==
    /\ message.event # <<>>
    /\ message.event[1].action = "modify"
    /\ MirrorFlagAdded \in message.event[1].changes

\* The BZ-URL search and the summary search were both made for the bug's
\* URL and neither found an issue.
NothingFound(h) ==
    /\ Len(h.searches) = 2
    /\ h.searches[1].filter = "BZ URL" /\ h.searches[1].found = {}
    /\ h.searches[2].filter = "summary" /\ h.searches[2].found = {}

C40_WitnessIgnored ==
    /\ Consumed
    /\ Len(output[1].handled) = 2
    /\ output[1].handled[1].message.event # <<>>
    /\ ~AddsMirrorFlag(output[1].handled[1].message)
    /\ output[1].handled[1].searches = <<>>
    /\ output[1].handled[2].error = "KeyError"
    /\ output[1].handled[2].creates = <<>>

====
